---- MODULE Spec2Model ----
(***************************************************************************)
(* A model of the resilient, resumable crawl engine of superscrape:        *)
(*   - the checkpoint ledger (scrape_runs / category_runs), the resume     *)
(*     resolver and the MultiCategoryScraper orchestrator   (SpecRun)      *)
(*   - the price-history store's batch write                (SpecStore)    *)
(*   - the circuit breaker with concurrent callers          (SpecBreaker)  *)
(*   - retryWithBackoff                                     (SpecRetry)    *)
(*   - the reliability wrapper (limiter + retry + breaker)  (SpecExec)     *)
(*   - the rate limiter with concurrent callers             (SpecLimiter)  *)
(*   - the scraper pool and its per-worker rate limiters    (SpecPool)     *)
(*   - a page fetch with its token refresh                  (SpecFetch)    *)
(*   - the token refresh of one scraper                     (SpecRefresh)  *)
(*   - the assignment of tasks to scrapers                  (SpecAssign)   *)
(* Every specification constrains all variables; the variables of the      *)
(* other components stay at their initial values.                          *)
(***************************************************************************)
EXTENDS Integers, Sequences, FiniteSets, TLC

(***************************************************************************)
(* Bounds of the model.                                                    *)
(***************************************************************************)
NumCats == 2          \* categories in categories.json
MaxRuns == 2          \* rows of scrape_runs
MaxConcurrency == 2   \* --concurrency
MaxProducts == 1      \* products returned for one category
MaxPages == 2         \* --max-pages
NumProducts == 2      \* product ids
NumStores == 2        \* store ids
MaxTime == 2          \* capture timestamps
MaxBatchProducts == 1 \* products in one saveProducts call
MaxBatchSnapshots == 2 \* snapshots in one saveProducts call
NumCallers == 3       \* concurrent callers of one circuit breaker
MaxClock == 5         \* the clock stops here
MaxThreshold == 2     \* failureThreshold is drawn from 1..MaxThreshold
MaxFailures == 3      \* cap of consecutiveFailures
ResetTimeout == 2     \* resetTimeoutMs, in clock ticks
MaxRetriesBound == 3  \* config.maxRetries is drawn from -1..MaxRetriesBound
MaxInitialDelay == 2  \* config.initialDelayMs is drawn from 1..MaxInitialDelay
MaxMultiplier == 2    \* config.backoffMultiplier is drawn from 1..MaxMultiplier
MaxDelayCap == 3      \* config.maxDelayMs is drawn from 2..MaxDelayCap
MaxExecutes == 2      \* calls of wrapper.execute that are followed
MaxRate == 2          \* requestsPerMinute is drawn from 1..MaxRate
MaxMinDelay == 1      \* minDelayMs is drawn from 0..MaxMinDelay
MaxJitter == 2        \* jitterMs is drawn from 0..MaxJitter
NumAcquirers == 2     \* concurrent callers of one rate limiter
MaxAcquires == 3      \* acquire() calls that are followed
LongMinDelay == 5     \* a minDelayMs longer than the window
MaxUpstream == 3      \* upstream calls of the scraper pool that are followed
NumRefreshCallers == 3 \* concurrent callers of one scraper's refreshToken
MaxRefreshes == 3     \* token refreshes of one scraper that are followed
NumWorkItems == 4     \* categories of a run whose assignment to scrapers is followed
MaxWorkers == 3       \* largest --concurrency of such a run

Cats == 1..NumCats
NoInt == 0 - 1        \* SQL NULL in an integer column
NoText == "null"      \* SQL NULL in a text column

VARIABLES
  \* ---- ledger (storage/database.ts, tables scrape_runs and category_runs)
  scrapeRuns,      \* sequence of rows; the id is the index
  categoryRuns,    \* [run id -> [category -> row or NoRow]]
  \* ---- one process: main() and MultiCategoryScraper.run()
  phase,           \* where the process is
  cfgCats,         \* config.categories, in order
  cfgRunId,        \* runId used by run() (0: not yet known)
  cfgConcurrency,  \* config.concurrency
  createPos,       \* createRun: categories inserted so far
  taskPc,          \* per task index: "none" | "queued" | "active" | "done" | "rejected"
  progress,        \* ScrapeProgress counters
  runCats,         \* run id -> categories createRun was called with
  cfgStores,       \* the outlets of the selection a run is being created for
  cfgStoreId,      \* the storeId argument of the createRun call (0: no call)
  fetchRejected,   \* categories whose scraper.scrapeCategory rejected, this run()
  savedCats,       \* categories whose saveProducts committed rows, this run()
  storageThrew     \* saveProducts or the completed update threw, this run()

runVars == <<scrapeRuns, categoryRuns, phase, cfgCats, cfgRunId,
             cfgConcurrency, createPos, taskPc, progress, runCats, cfgStores, cfgStoreId,
             fetchRejected, savedCats, storageThrew>>

VARIABLES
  \* ---- price-history store (storage/database.ts, tables products and price_snapshots)
  dbProducts,      \* committed rows of products: [product id -> row or NoProduct]
  dbSnapshots,     \* committed rows of price_snapshots
  txProducts,      \* products as the connection sees it (inside a transaction)
  txSnapshots,     \* price_snapshots as the connection sees it
  stPc,            \* "idle" | "products" | "snapshots": where saveProducts is
  batchProducts,   \* the products saveProducts has upserted so far, in order
  batchSnapshots,  \* the snapshots saveProducts has inserted so far
  beforeProducts,  \* committed products when saveProducts was called
  beforeSnapshots, \* committed price_snapshots when saveProducts was called
  batchOutcome     \* "none" | "committed" | "threw" | "killed"

storeVars == <<dbProducts, dbSnapshots, txProducts, txSnapshots, stPc, batchProducts,
               batchSnapshots, beforeProducts, beforeSnapshots, batchOutcome>>

VARIABLES
  \* ---- the clock read by Date.now()
  now,
  \* ---- one circuit breaker (createCircuitBreaker's closure)
  failureThreshold,     \* config.failureThreshold (0: no breaker created yet)
  cbState,              \* "CLOSED" | "OPEN" | "HALF_OPEN"
  consecutiveFailures,
  lastFailureTime,      \* NoInt: undefined
  probeInProgress,
  \* ---- the callers of circuitBreaker.execute
  callPc,               \* per caller: "idle" | "closed" | "probe": not in execute, or
                        \* awaiting fn() after being admitted while CLOSED / as the probe
  lastResult,           \* how the last execute() to settle ended, and whose it was
  failStreak,           \* failed fn() calls since the last fn() success
  lastFailAt,           \* when fn() last failed (NoInt: never)
  thrown,               \* the error fn() threw in the breaker's last step (NoError: none)
  raised,               \* the error execute() raised in that step (NoError: none)
  lastSettledAs         \* how the call whose fn() settled last had been admitted:
                        \* "closed" | "probe" ("none": no fn() has settled)

VARIABLES
  \* ---- one call of retryWithBackoff(fn, config)
  retryConfig,          \* its config argument
  rtPc,                 \* "idle" | "loop" (at the while test) | "fn" (awaiting fn())
                        \* | "sleep" (awaiting the backoff timer) | "done"
                        \* | "escaped" (an exception left retryWithBackoff)
  attempts,             \* the local variable attempts
  fnCalls,              \* how many times fn was invoked by this call
  rtResult,             \* the RetryResult returned
  rtDelay,              \* the delay of the backoff timer last set
  rtDelays,             \* the delays of the backoff timers set by this call, in order
  \* ---- one rate limiter (createRateLimiter's closure)
  limiterConfig,
  requestTimestamps,
  \* ---- one reliability wrapper and its single caller
  exPc,                 \* "none" (no wrapper yet) | "idle" | "acquire" | "retry"
  wakeAt,               \* when the timer being awaited is due
  acquireCalls,         \* calls of rateLimiter.acquire() by the current execute()
  exResult,             \* how the last execute() ended
  executes,             \* calls of execute() so far
  fnInvocations,        \* invocations of fn by the current execute()
  openAtCall,           \* the breaker was OPEN, its reset timeout not yet elapsed,
                        \* when the current execute() was called
  atCall                \* consecutiveFailures and the time when execute() was called

VARIABLES
  \* ---- the callers of rateLimiter.acquire() on a limiter used by itself
  acqPc,                \* per caller: "none" (no limiter yet) | "idle" | "waiting"
  acqWake,              \* per caller: when its timer is due
  grants,               \* the times at which acquire() calls returned, in order
  overlapped            \* some acquire() was called while another was pending

acquireVars == <<acqPc, acqWake, grants, overlapped>>

VARIABLES
  \* ---- the scraper pool of MultiCategoryScraper.run: one reliability wrapper,
  \* and so one rate limiter, per NewWorldScraper
  poolConfig,           \* the rateLimiter config every wrapper is created with
  wkPc,                 \* per worker: "none" (no scraper) | "idle" | "waiting"
  wkTimestamps,         \* per worker: requestTimestamps of its rate limiter
  wkWake,               \* per worker: when its acquire() timer is due
  upstream              \* the times of the upstream calls of all workers, in order

poolVars == <<poolConfig, wkPc, wkTimestamps, wkWake, upstream>>

VARIABLES
  \* ---- NewWorldScraper.fetchProductsFromApi, run as the fn of reliability.execute
  fetchPc,              \* "idle" | "refresh" (awaiting refreshToken after a 401)
                        \* | "resend" (awaiting the request sent again)
  refreshesOf,          \* per execute() call: refreshToken calls after a 401
  resendsOf             \* per execute() call: requests sent again after a refresh

fetchVars == <<fetchPc, refreshesOf, resendsOf>>

VARIABLES
  \* ---- NewWorldScraper.refreshToken of one scraper
  isRefreshing,         \* the busy flag
  authorizationToken,   \* TRUE when a token is held, FALSE for null
  rfPc,                 \* per caller: "idle" | "polling" | "goto" | "returned" | "threw"
  refreshesStarted,     \* refreshes started so far; the last one has this number
  rfAwaits,             \* per caller: the refresh that ran when it called, or 0
  rfFinished            \* the refreshes whose finally block has run

refreshVars == <<isRefreshing, authorizationToken, rfPc, refreshesStarted, rfAwaits, rfFinished>>

VARIABLES
  \* ---- MultiCategoryScraper.run: the tasks handed to p-limit and their scrapers
  scrapers,             \* this.scrapers.length, 0 before run() and after it
  limitPc               \* per category index: "none" | "queued" | "active" | "done"

assignVars == <<scrapers, limitPc>>

retryVars == <<retryConfig, rtPc, attempts, fnCalls, rtResult, rtDelay, rtDelays>>

limiterVars == <<limiterConfig, requestTimestamps>>

wrapperVars == <<exPc, wakeAt, acquireCalls, exResult, executes, fnInvocations, openAtCall, atCall>>

breakerVars == <<failureThreshold, cbState, consecutiveFailures, lastFailureTime,
                 probeInProgress>>

callerVars == <<callPc, lastResult, failStreak, lastFailAt, thrown, raised, lastSettledAs>>

vars == <<runVars, storeVars, now, breakerVars, callerVars, retryVars, limiterVars,
          wrapperVars, acquireVars, poolVars, fetchVars, refreshVars, assignVars>>

\* what run() has seen of its collaborators
seenVars == <<fetchRejected, savedCats, storageThrew>>

\* nothing seen yet
NothingSeen ==
  /\ fetchRejected' = {}
  /\ savedCats' = {}
  /\ storageThrew' = FALSE

\* what the actions of each specification leave alone
RunFrame == <<storeVars, now, breakerVars, callerVars, retryVars, limiterVars, wrapperVars,
  acquireVars, poolVars, fetchVars, refreshVars, assignVars>>
StoreFrame == <<runVars, now, breakerVars, callerVars, retryVars, limiterVars, wrapperVars,
  acquireVars, poolVars, fetchVars, refreshVars, assignVars>>
BreakerFrame == <<runVars, storeVars, retryVars, limiterVars, wrapperVars,
  acquireVars, poolVars, fetchVars, refreshVars, assignVars>>
RetryFrame == <<runVars, storeVars, now, breakerVars, callerVars, limiterVars, wrapperVars,
  acquireVars, poolVars, fetchVars, refreshVars, assignVars>>
FetchFrame == <<runVars, storeVars, acquireVars, poolVars, refreshVars, assignVars>>
ExecFrame == <<FetchFrame, fetchVars>>
LimiterFrame == <<runVars, storeVars, breakerVars, callerVars, retryVars, wrapperVars,
  poolVars, fetchVars, refreshVars, assignVars>>
PoolFrame == <<runVars, storeVars, breakerVars, callerVars, retryVars, limiterVars,
  wrapperVars, acquireVars, fetchVars, refreshVars, assignVars>>
RefreshFrame == <<runVars, storeVars, now, breakerVars, callerVars, retryVars, limiterVars,
  wrapperVars, acquireVars, poolVars, fetchVars, assignVars>>
AssignFrame == <<runVars, storeVars, now, breakerVars, callerVars, retryVars, limiterVars,
  wrapperVars, acquireVars, poolVars, fetchVars, refreshVars>>

(***************************************************************************)
(* Ledger: storage/repository.ts                                           *)
(***************************************************************************)
NoRow == [status |-> "absent", lastPage |-> NoInt, productCount |-> NoInt, error |-> NoText]

PendingRow == [status |-> "pending", lastPage |-> NoInt, productCount |-> NoInt, error |-> NoText]

RunIds == 1..Len(scrapeRuns)

RECURSIVE SeqOf(_)
\* the categories of a selection in catalogue order (Array.filter keeps order)
SeqOf(S) == IF S = {} THEN <<>>
            ELSE LET m == CHOOSE x \in S : \A y \in S : x <= y
                 IN <<m>> \o SeqOf(S \ {m})

Range(s) == {s[i] : i \in 1..Len(s)}

\* UPDATE category_runs SET status, last_page, product_count, error WHERE run_id, category_slug
updateCategoryRun(cr, runId, cat, update) ==
  IF runId \notin DOMAIN cr \/ cr[runId][cat] = NoRow
  THEN cr
  ELSE [cr EXCEPT ![runId][cat] =
          [status |-> update.status, lastPage |-> update.lastPage,
           productCount |-> update.productCount, error |-> update.error]]

\* CategoryRunUpdate with the optional fields left out (?? null)
StatusUpdate(st) == [status |-> st, lastPage |-> NoInt, productCount |-> NoInt, error |-> NoText]

\* UPDATE scrape_runs SET status = 'completed', completed_at = now WHERE id = runId
completeRun(sr, runId) ==
  IF runId \in 1..Len(sr)
  THEN [sr EXCEPT ![runId] = [status |-> "completed", completed |-> TRUE]]
  ELSE sr

\* the category rows of a run
RowsOf(runId) == {c \in Cats : categoryRuns[runId][c] # NoRow}

\* getRunStatus whose caller keeps only the rows with status 'pending'
getRunStatusPendingOnly(runId) ==
  IF runId \in RunIds
  THEN [id |-> runId, status |-> scrapeRuns[runId].status,
        pending |-> {c \in RowsOf(runId) : categoryRuns[runId][c].status = "pending"}]
  ELSE [id |-> 0, status |-> "none", pending |-> {}]

\* SELECT * FROM scrape_runs WHERE id = ?  (0: no such run)
getRunStatus(runId) ==
  IF runId \in RunIds
  THEN [id |-> runId, status |-> scrapeRuns[runId].status,
        pending |-> {c \in RowsOf(runId) :
                       categoryRuns[runId][c].status \in {"pending", "failed"}}]
  ELSE [id |-> 0, status |-> "none", pending |-> {}]

\* getIncompleteRun without the WHERE status IN ('pending', 'failed')
getIncompleteRunAnyStatus ==
  LET open == {r \in RunIds : scrapeRuns[r].status = "in_progress"}
  IN IF open = {} THEN [id |-> 0, pending |-> {}]
     ELSE LET r == CHOOSE x \in open : \A y \in open : y <= x
          IN [id |-> r, pending |-> RowsOf(r)]

\* the most recently started run whose status is in_progress (0: none)
getIncompleteRun ==
  LET open == {r \in RunIds : scrapeRuns[r].status = "in_progress"}
  IN IF open = {} THEN [id |-> 0, pending |-> {}]
     ELSE LET r == CHOOSE x \in open : \A y \in open : y <= x
          IN [id |-> r,
              pending |-> {c \in RowsOf(r) :
                             categoryRuns[r][c].status \in {"pending", "failed"}}]

(***************************************************************************)
(* resume.ts                                                               *)
(***************************************************************************)
ResumeResult(err, rid, cats, resuming, allDone) ==
  [error |-> err, runId |-> rid, categoriesToScrape |-> cats,
   isResuming |-> resuming, allCompleted |-> allDone]

\* resolveResumeState without the categoriesToScrape.length === 0 branch
resolveResumeStateNoEmptyCase(sel, resume, rid) ==
  IF ~resume /\ rid = 0
  THEN ResumeResult("none", 0, sel, FALSE, FALSE)
  ELSE IF rid # 0 /\ getRunStatus(rid).id = 0
  THEN ResumeResult("not found", 0, {}, FALSE, FALSE)
  ELSE IF rid # 0 /\ getRunStatus(rid).status = "completed"
  THEN ResumeResult("already completed", 0, {}, FALSE, FALSE)
  ELSE LET inc == IF rid # 0
                  THEN [id |-> rid, pending |-> getRunStatus(rid).pending]
                  ELSE getIncompleteRun
       IN IF inc.id = 0
          THEN ResumeResult("none", 0, sel, FALSE, FALSE)
          ELSE ResumeResult("none", inc.id, {c \in sel : c \in inc.pending}, TRUE, FALSE)

resolveResumeState(sel, resume, rid) ==
  IF ~resume /\ rid = 0
  THEN ResumeResult("none", 0, sel, FALSE, FALSE)
  ELSE IF rid # 0 /\ getRunStatus(rid).id = 0
  THEN ResumeResult("not found", 0, {}, FALSE, FALSE)
  ELSE IF rid # 0 /\ getRunStatus(rid).status = "completed"
  THEN ResumeResult("already completed", 0, {}, FALSE, FALSE)
  ELSE LET inc == IF rid # 0
                  THEN [id |-> rid, pending |-> getRunStatus(rid).pending]
                  ELSE getIncompleteRun
       IN IF inc.id = 0
          THEN ResumeResult("none", 0, sel, FALSE, FALSE)
          ELSE LET cs == {c \in sel : c \in inc.pending}
               IN IF cs = {}
                  THEN ResumeResult("none", inc.id, {}, TRUE, TRUE)
                  ELSE ResumeResult("none", inc.id, cs, TRUE, FALSE)

(***************************************************************************)
(* main() and MultiCategoryScraper                                         *)
(***************************************************************************)
\* the command lines that differ for resolveResumeState: --resume is not read
\* when --run-id is given
ResumeOptions == {[resume |-> b, runId |-> 0] : b \in BOOLEAN}
                 \cup {[resume |-> FALSE, runId |-> r] : r \in 1..MaxRuns}

NoTasks == [i \in 1..NumCats |-> "none"]

ProcessStopped == phase \in {"idle", "nothingToDo", "finished", "aborted", "exited", "dead"}

\* index.ts main(): resolve the resume state and construct the scraper
Main(sel, resume, rid, conc) ==
  /\ ProcessStopped
  /\ LET rs == resolveResumeState(sel, resume, rid)
     IN /\ rs.error = "none" /\ ~rs.allCompleted /\ rs.runId = 0
             => Len(scrapeRuns) < MaxRuns
        /\ cfgConcurrency' = IF rs.error # "none" \/ rs.allCompleted THEN 1 ELSE conc
        /\ cfgCats' = SeqOf(rs.categoriesToScrape)
        /\ cfgRunId' = rs.runId
        /\ phase' = IF rs.error # "none" THEN "exited"
                    ELSE IF rs.allCompleted THEN "nothingToDo"
                    ELSE IF rs.runId = 0 THEN "createRun"
                    ELSE "init"
        /\ createPos' = 0
        /\ taskPc' = NoTasks
        /\ progress' = [completed |-> 0, failed |-> 0]
        /\ NothingSeen
        /\ UNCHANGED <<scrapeRuns, categoryRuns, runCats, cfgStores, cfgStoreId>>
  /\ UNCHANGED RunFrame

\* createRun, first statement: INSERT INTO scrape_runs.
\* stores: the outlets of the selection the run is created for; createRun takes
\* one storeId, which the caller picks among them
CreateRunInsertRun(stores, storeId) ==
  /\ phase = "createRun"
  /\ cfgRunId = 0
  /\ storeId \in stores
  /\ cfgStores' = stores
  /\ cfgStoreId' = storeId
  /\ scrapeRuns' = Append(scrapeRuns, [status |-> "in_progress", completed |-> FALSE])
  /\ cfgRunId' = Len(scrapeRuns) + 1
  /\ runCats' = [runCats EXCEPT ![Len(scrapeRuns) + 1] = Range(cfgCats)]
  /\ createPos' = 0
  /\ UNCHANGED <<categoryRuns, phase, cfgCats, cfgConcurrency, taskPc, progress, seenVars>>
  /\ UNCHANGED RunFrame

\* createRun, loop body: INSERT INTO category_runs, one statement per category.
\* createRun opens no transaction, so every statement commits on its own.
\* A statement may throw (storage error); createRun is called before run()'s
\* try block, so the exception leaves main() and the process exits.
CreateRunInsertCategory(ok) ==
  /\ phase = "createRun"
  /\ cfgRunId # 0
  /\ createPos < Len(cfgCats)
  /\ IF ok
     THEN /\ categoryRuns' = [categoryRuns EXCEPT ![cfgRunId][cfgCats[createPos + 1]] = PendingRow]
          /\ createPos' = createPos + 1
          /\ phase' = IF createPos + 1 = Len(cfgCats) THEN "init" ELSE "createRun"
          /\ UNCHANGED <<cfgStores, cfgStoreId>>
     ELSE /\ categoryRuns' = categoryRuns
          /\ createPos' = 0
          /\ phase' = "exited"
          /\ cfgStores' = {}
          /\ cfgStoreId' = 0
  /\ UNCHANGED <<scrapeRuns, cfgCats, cfgRunId, cfgConcurrency, taskPc, progress, runCats,
                 seenVars>>
  /\ UNCHANGED RunFrame

\* run(): the scraper pool is initialised and one task per category is queued
InitScrapers(ok) ==
  /\ phase = "init"
  /\ phase' = IF ok THEN "running" ELSE "exited"
  /\ taskPc' = IF ok THEN [i \in 1..NumCats |-> IF i <= Len(cfgCats) THEN "queued" ELSE "none"]
               ELSE taskPc
  /\ cfgStores' = {}
  /\ cfgStoreId' = 0
  /\ UNCHANGED <<scrapeRuns, categoryRuns, cfgCats, cfgRunId, cfgConcurrency, createPos, progress, runCats,
                 seenVars>>
  /\ UNCHANGED RunFrame

Tasks == 1..Len(cfgCats)

ActiveTasks == {i \in Tasks : taskPc[i] = "active"}

\* tasks that are not passed through limit(...)
SlotFreeAlways == TRUE

\* pLimit(concurrency): a queued task starts when fewer than concurrency are running
SlotFree == Cardinality(ActiveTasks) < cfgConcurrency

\* the worker a task is assigned to: this.scrapers[index % this.scrapers.length]
scraperOf(i) == (i - 1) % cfgConcurrency

\* Promise.all(tasks) rejects as soon as one task rejects; run() then skips
\* completeRun and goes to its finally block
AfterTask(rejected) == IF rejected /\ phase = "running" THEN "closing" ELSE phase

\* scrapeCategory up to its await: p-limit starts the next queued task when a
\* slot is free; the in_progress update is made before the try block
TaskStart(i, ok) ==
  /\ phase \in {"running", "closing"}
  /\ i \in Tasks
  /\ taskPc[i] = "queued"
  /\ \A j \in Tasks : j < i => taskPc[j] # "queued"
  /\ SlotFree
  /\ IF ok
     THEN /\ categoryRuns' = updateCategoryRun(categoryRuns, cfgRunId, cfgCats[i],
                                               StatusUpdate("in_progress"))
          /\ taskPc' = [taskPc EXCEPT ![i] = "active"]
          /\ phase' = phase
     ELSE /\ categoryRuns' = categoryRuns
          /\ taskPc' = [taskPc EXCEPT ![i] = "rejected"]
          /\ phase' = AfterTask(TRUE)
  /\ UNCHANGED <<scrapeRuns, cfgCats, cfgRunId, cfgConcurrency, createPos, progress, runCats,
                 cfgStores, cfgStoreId, seenVars>>
  /\ UNCHANGED RunFrame

\* a catch block that counts the failure but leaves the work item as it is
CatchBlockKeepsStatus(i, cr, failedOk, progressOk) ==
  /\ categoryRuns' = cr
  /\ progress' = IF failedOk THEN [progress EXCEPT !.failed = @ + 1] ELSE progress
  /\ taskPc' = [taskPc EXCEPT ![i] = IF failedOk /\ progressOk THEN "done" ELSE "rejected"]
  /\ phase' = AfterTask(~(failedOk /\ progressOk))

\* products asked for per page (50 in the source), in products of the model
hitsPerPage == 1

\* NewWorldScraper.scrapeCategory: the pages it fetched when it returns n
\* products; the loop stops after maxPages pages or after a page that is not full
PagesFetched(n, maxPages) ==
  IF n \div hitsPerPage + 1 < maxPages THEN n \div hitsPerPage + 1 ELSE maxPages

\* the catch block of scrapeCategory and the onProgress call after it
CatchBlock(i, cr, failedOk, progressOk) ==
  /\ categoryRuns' = IF failedOk
                     THEN updateCategoryRun(cr, cfgRunId, cfgCats[i],
                            [StatusUpdate("failed") EXCEPT !.error = "error"])
                     ELSE cr
  /\ progress' = IF failedOk THEN [progress EXCEPT !.failed = @ + 1] ELSE progress
  /\ taskPc' = [taskPc EXCEPT ![i] = IF failedOk /\ progressOk THEN "done" ELSE "rejected"]
  /\ phase' = AfterTask(~(failedOk /\ progressOk))

\* scrapeCategory after scraper.scrapeCategory resolved with n products:
\* saveProducts, the completed update, the counters, onProgress.
\* saveOk, completedOk: whether saveProducts / the completed update return;
\* failedOk: whether the failed update in the catch block returns;
\* progressOk: whether the onProgress callback returns.
TaskFetchOk(i, n, saveOk, completedOk, failedOk, progressOk) ==
  /\ phase \in {"running", "closing"}
  /\ i \in Tasks
  /\ taskPc[i] = "active"
  /\ n = 0 => saveOk
  /\ saveOk \/ completedOk
  /\ (saveOk /\ completedOk) => failedOk
  /\ IF saveOk /\ completedOk
           THEN /\ categoryRuns' = updateCategoryRun(categoryRuns, cfgRunId, cfgCats[i],
                                     [StatusUpdate("completed") EXCEPT
                                        !.lastPage = MaxPages, !.productCount = n])
                /\ progress' = [progress EXCEPT !.completed = @ + 1]
                /\ taskPc' = [taskPc EXCEPT ![i] = IF progressOk THEN "done" ELSE "rejected"]
                /\ phase' = AfterTask(~progressOk)
           ELSE CatchBlock(i, categoryRuns, failedOk, progressOk)
  /\ savedCats' = IF n > 0 /\ saveOk THEN savedCats \cup {cfgCats[i]} ELSE savedCats
  /\ storageThrew' = (storageThrew \/ ~(saveOk /\ completedOk))
  /\ UNCHANGED <<scrapeRuns, cfgCats, cfgRunId, cfgConcurrency, createPos, runCats,
                 cfgStores, cfgStoreId, fetchRejected>>
  /\ UNCHANGED RunFrame

\* scrapeCategory after scraper.scrapeCategory rejected
TaskFetchFail(i, failedOk, progressOk) ==
  /\ phase \in {"running", "closing"}
  /\ i \in Tasks
  /\ taskPc[i] = "active"
  /\ CatchBlock(i, categoryRuns, failedOk, progressOk)
  /\ fetchRejected' = fetchRejected \cup {cfgCats[i]}
  /\ UNCHANGED <<scrapeRuns, cfgCats, cfgRunId, cfgConcurrency, createPos, runCats,
                 cfgStores, cfgStoreId, savedCats, storageThrew>>
  /\ UNCHANGED RunFrame

\* run() after Promise.all(tasks) resolved: completeRun, then the finally block;
\* run() returns progress and main() prints the summary
CompleteRun ==
  /\ phase = "running"
  /\ \A i \in Tasks : taskPc[i] = "done"
  /\ scrapeRuns' = completeRun(scrapeRuns, cfgRunId)
  /\ phase' = "finished"
  /\ taskPc' = NoTasks
  /\ UNCHANGED <<categoryRuns, cfgCats, cfgRunId, cfgConcurrency, createPos,
                 progress, runCats, cfgStores, cfgStoreId, seenVars>>
  /\ UNCHANGED RunFrame

\* run() rejected: main().catch prints the error and calls process.exit(1)
Exit ==
  /\ phase = "closing"
  /\ phase' = "aborted"
  /\ taskPc' = NoTasks
  /\ progress' = [completed |-> 0, failed |-> 0]
  /\ NothingSeen
  /\ UNCHANGED <<scrapeRuns, categoryRuns, cfgCats, cfgRunId, cfgConcurrency,
                 createPos, runCats, cfgStores, cfgStoreId>>
  /\ UNCHANGED RunFrame

\* the process is killed; only the database survives
Kill ==
  /\ phase \in {"createRun", "init", "running", "closing"}
  /\ phase' = "dead"
  /\ cfgCats' = <<>>
  /\ cfgRunId' = 0
  /\ cfgConcurrency' = 1
  /\ createPos' = 0
  /\ taskPc' = NoTasks
  /\ progress' = [completed |-> 0, failed |-> 0]
  /\ cfgStores' = {}
  /\ cfgStoreId' = 0
  /\ NothingSeen
  /\ UNCHANGED <<scrapeRuns, categoryRuns, runCats>>
  /\ UNCHANGED RunFrame

RunInit ==
  /\ scrapeRuns = <<>>
  /\ categoryRuns = [r \in 1..MaxRuns |-> [c \in Cats |-> NoRow]]
  /\ phase = "idle"
  /\ cfgCats = <<>>
  /\ cfgRunId = 0
  /\ cfgConcurrency = 1
  /\ createPos = 0
  /\ taskPc = NoTasks
  /\ progress = [completed |-> 0, failed |-> 0]
  /\ runCats = [r \in 1..MaxRuns |-> {}]
  /\ cfgStores = {}
  /\ cfgStoreId = 0
  /\ fetchRejected = {}
  /\ savedCats = {}
  /\ storageThrew = FALSE

RunNext ==
  \/ \E sel \in (SUBSET Cats) \ {{}}, opt \in ResumeOptions, conc \in 1..MaxConcurrency :
        Main(sel, opt.resume, opt.runId, conc)
  \/ \E stores \in (SUBSET (1..NumStores)) \ {{}}, storeId \in 1..NumStores :
        CreateRunInsertRun(stores, storeId)
  \/ \E ok \in BOOLEAN : CreateRunInsertCategory(ok)
  \/ \E ok \in BOOLEAN : InitScrapers(ok)
  \/ \E i \in 1..NumCats, ok \in BOOLEAN : TaskStart(i, ok)
  \/ \E i \in 1..NumCats, n \in 0..MaxProducts, saveOk \in BOOLEAN, completedOk \in BOOLEAN,
        failedOk \in BOOLEAN, progressOk \in BOOLEAN :
        TaskFetchOk(i, n, saveOk, completedOk, failedOk, progressOk)
  \/ \E i \in 1..NumCats, failedOk \in BOOLEAN, progressOk \in BOOLEAN :
        TaskFetchFail(i, failedOk, progressOk)
  \/ CompleteRun
  \/ Exit
  \/ Kill

(***************************************************************************)
(* Price-history store: storage/database.ts, storage/repository.ts         *)
(***************************************************************************)
ProductIds == 1..NumProducts
StoreIds == 1..NumStores
Times == 1..MaxTime

NoProduct == [name |-> "absent", first_seen |-> 0, last_seen |-> 0]

\* the ProductRecord values offered to the store; a NULL name breaks NOT NULL
ProductRecords == {[product_id |-> i, name |-> n, first_seen |-> t, last_seen |-> t] :
                     i \in ProductIds, n \in {"name", NoText}, t \in Times}

SnapshotRecords == [product_id : ProductIds, store_id : StoreIds, scraped_at : Times]

\* the columns of the UNIQUE constraint of price_snapshots
SnapshotKey(s) == <<s.product_id, s.scraped_at>>

\* INSERT INTO products ... ON CONFLICT(product_id) DO UPDATE SET name, ..., last_seen
upsertProduct(tbl, p) ==
  IF tbl[p.product_id] = NoProduct
  THEN [tbl EXCEPT ![p.product_id] =
          [name |-> p.name, first_seen |-> p.first_seen, last_seen |-> p.last_seen]]
  ELSE [tbl EXCEPT ![p.product_id] =
          [name |-> p.name, first_seen |-> @.first_seen, last_seen |-> p.last_seen]]

\* the statement throws: name TEXT NOT NULL
upsertProductThrows(p) == p.name = NoText

\* INSERT INTO price_snapshots
insertPriceSnapshot(rows, s) == rows \cup {s}

\* the statement throws: UNIQUE constraint failed
insertPriceSnapshotThrows(rows, s) == \E x \in rows : SnapshotKey(x) = SnapshotKey(s)

\* the statements of saveProducts run outside any transaction: each one commits
CommittedAfterStatementAutocommit(committed, work) == work

\* what is committed after a statement of saveProducts has run: the statements
\* run inside db.transaction(...), so nothing is until COMMIT
CommittedAfterStatement(committed, work) == committed

\* no saveProducts call is being followed
NoBatch ==
  /\ batchProducts' = <<>>
  /\ batchSnapshots' = {}
  /\ beforeProducts' = dbProducts'
  /\ beforeSnapshots' = dbSnapshots'
  /\ batchOutcome' = "none"

\* upsertProduct called on its own: the statement commits by itself
UpsertProduct(p) ==
  /\ stPc = "idle"
  /\ ~upsertProductThrows(p)
  /\ dbProducts' = upsertProduct(dbProducts, p)
  /\ txProducts' = dbProducts'
  /\ UNCHANGED <<dbSnapshots, txSnapshots, stPc>>
  /\ NoBatch
  /\ UNCHANGED StoreFrame

\* insertPriceSnapshot called on its own
InsertPriceSnapshot(snap) ==
  /\ stPc = "idle"
  /\ ~insertPriceSnapshotThrows(dbSnapshots, snap)
  /\ dbSnapshots' = insertPriceSnapshot(dbSnapshots, snap)
  /\ txSnapshots' = dbSnapshots'
  /\ UNCHANGED <<dbProducts, txProducts, stPc>>
  /\ NoBatch
  /\ UNCHANGED StoreFrame

\* saveProducts is called: transaction() issues BEGIN
SaveProductsBegin ==
  /\ stPc = "idle"
  /\ stPc' = "products"
  /\ batchProducts' = <<>>
  /\ batchSnapshots' = {}
  /\ beforeProducts' = dbProducts
  /\ beforeSnapshots' = dbSnapshots
  /\ batchOutcome' = "none"
  /\ UNCHANGED <<dbProducts, dbSnapshots, txProducts, txSnapshots>>
  /\ UNCHANGED StoreFrame

\* the exception leaves the transaction function: ROLLBACK, and saveProducts throws
SaveProductsThrow ==
  /\ txProducts' = dbProducts'
  /\ txSnapshots' = dbSnapshots'
  /\ stPc' = "idle"
  /\ batchOutcome' = "threw"

\* for (const product of products) upsertProduct(dbPath, product)
SaveProductsUpsert(p) ==
  /\ stPc = "products"
  /\ Len(batchProducts) < MaxBatchProducts
  /\ batchProducts' = Append(batchProducts, p)
  /\ IF upsertProductThrows(p)
     THEN /\ dbProducts' = dbProducts
          /\ dbSnapshots' = dbSnapshots
          /\ SaveProductsThrow
     ELSE /\ txProducts' = upsertProduct(txProducts, p)
          /\ dbProducts' = CommittedAfterStatement(dbProducts, txProducts')
          /\ UNCHANGED <<dbSnapshots, txSnapshots, stPc, batchOutcome>>
  /\ UNCHANGED <<batchSnapshots, beforeProducts, beforeSnapshots>>
  /\ UNCHANGED StoreFrame

\* for (const snapshot of snapshots) insertPriceSnapshot(dbPath, snapshot)
SaveProductsInsert(snap) ==
  /\ stPc \in {"products", "snapshots"}
  /\ Cardinality(batchSnapshots) < MaxBatchSnapshots
  /\ batchSnapshots' = batchSnapshots \cup {snap}
  /\ IF insertPriceSnapshotThrows(txSnapshots, snap)
     THEN /\ dbProducts' = dbProducts
          /\ dbSnapshots' = dbSnapshots
          /\ SaveProductsThrow
     ELSE /\ txSnapshots' = insertPriceSnapshot(txSnapshots, snap)
          /\ dbSnapshots' = CommittedAfterStatement(dbSnapshots, txSnapshots')
          /\ stPc' = "snapshots"
          /\ UNCHANGED <<dbProducts, txProducts, batchOutcome>>
  /\ UNCHANGED <<batchProducts, beforeProducts, beforeSnapshots>>
  /\ UNCHANGED StoreFrame

\* both loops are done: COMMIT
SaveProductsCommit ==
  /\ stPc \in {"products", "snapshots"}
  /\ dbProducts' = txProducts
  /\ dbSnapshots' = txSnapshots
  /\ stPc' = "idle"
  /\ batchOutcome' = "committed"
  /\ UNCHANGED <<txProducts, txSnapshots, batchProducts, batchSnapshots,
                 beforeProducts, beforeSnapshots>>
  /\ UNCHANGED StoreFrame

\* the process is killed inside saveProducts: the open transaction is lost
StoreKill ==
  /\ stPc \in {"products", "snapshots"}
  /\ txProducts' = dbProducts
  /\ txSnapshots' = dbSnapshots
  /\ stPc' = "idle"
  /\ batchOutcome' = "killed"
  /\ UNCHANGED <<dbProducts, dbSnapshots, batchProducts, batchSnapshots,
                 beforeProducts, beforeSnapshots>>
  /\ UNCHANGED StoreFrame

StoreInit ==
  /\ dbProducts = [i \in ProductIds |-> NoProduct]
  /\ dbSnapshots = {}
  /\ txProducts = [i \in ProductIds |-> NoProduct]
  /\ txSnapshots = {}
  /\ stPc = "idle"
  /\ batchProducts = <<>>
  /\ batchSnapshots = {}
  /\ beforeProducts = [i \in ProductIds |-> NoProduct]
  /\ beforeSnapshots = {}
  /\ batchOutcome = "none"

StoreNext ==
  \/ \E p \in ProductRecords : UpsertProduct(p)
  \/ \E snap \in SnapshotRecords : InsertPriceSnapshot(snap)
  \/ SaveProductsBegin
  \/ \E p \in ProductRecords : SaveProductsUpsert(p)
  \/ \E snap \in SnapshotRecords : SaveProductsInsert(snap)
  \/ SaveProductsCommit
  \/ StoreKill

(***************************************************************************)
(* Errors                                                                  *)
(***************************************************************************)
\* an Error as isRetryableError sees it: its name, its statusCode property
\* (NoInt: none) and whether its message contains one of the network patterns
Errors == [name : {"Error", "ValidationError", "AuthenticationError"},
           statusCode : {NoInt, 404, 503},
           network : BOOLEAN]

CircuitOpenError == [name |-> "CircuitOpenError", statusCode |-> NoInt, network |-> FALSE]

\* new Error('Unknown error')
UnknownError == [name |-> "Error", statusCode |-> NoInt, network |-> FALSE]

NoError == [name |-> NoText, statusCode |-> NoInt, network |-> FALSE]

(***************************************************************************)
(* Circuit breaker: createCircuitBreaker                                   *)
(***************************************************************************)
Callers == 1..NumCallers

\* the breaker's closure variables as one value
Breaker == [state |-> cbState, consecutiveFailures |-> consecutiveFailures,
            lastFailureTime |-> lastFailureTime, probeInProgress |-> probeInProgress]

\* a mutant of getStats: looking at the breaker restarts the reset timer
getStatsRestartsTimer(b, t) ==
  IF b.state = "OPEN" THEN [b EXCEPT !.lastFailureTime = t] ELSE b

\* getStats(): the lazy OPEN -> HALF_OPEN transition.  lastFailureTime is
\* tested for truthiness: undefined and 0 both fail the test.
getStats(b, t) ==
  IF /\ b.state = "OPEN"
     /\ b.lastFailureTime # NoInt /\ b.lastFailureTime # 0
     /\ t - b.lastFailureTime >= ResetTimeout
  THEN [b EXCEPT !.state = "HALF_OPEN", !.probeInProgress = FALSE]
  ELSE b

recordSuccess(b) ==
  [b EXCEPT !.consecutiveFailures = 0, !.state = "CLOSED", !.probeInProgress = FALSE]

\* the breaker opens only once the threshold is exceeded
ThresholdExceeded(n, threshold) == n > threshold

\* consecutiveFailures >= config.failureThreshold
ThresholdReached(n, threshold) == n >= threshold

\* a failure that leaves the reset timer where it was
recordFailureKeepsTimer(b, t) ==
  [b EXCEPT !.consecutiveFailures = @ + 1,
            !.lastFailureTime = IF @ = NoInt THEN t ELSE @,
            !.state = IF ThresholdReached(b.consecutiveFailures + 1, failureThreshold)
                      THEN "OPEN" ELSE @,
            !.probeInProgress = FALSE]

recordFailure(b, t) ==
  [b EXCEPT !.consecutiveFailures = @ + 1,
            !.lastFailureTime = t,
            !.state = IF ThresholdReached(b.consecutiveFailures + 1, failureThreshold)
                      THEN "OPEN" ELSE @,
            !.probeInProgress = FALSE]

\* execute() rejects only while a probe is pending
RejectsOnlyBusyProbe(b) == b.state = "HALF_OPEN" /\ b.probeInProgress

\* execute() rejects with CircuitOpenError: OPEN, or HALF_OPEN with a probe pending
Rejects(b) == b.state = "OPEN" \/ (b.state = "HALF_OPEN" /\ b.probeInProgress)

\* execute() up to its await: the breaker after the call was admitted
admit(b) == IF b.state = "HALF_OPEN" THEN [b EXCEPT !.probeInProgress = TRUE] ELSE b

SetBreaker(b) ==
  /\ cbState' = b.state
  /\ consecutiveFailures' = b.consecutiveFailures
  /\ lastFailureTime' = b.lastFailureTime
  /\ probeInProgress' = b.probeInProgress
  /\ failureThreshold' = failureThreshold

\* createCircuitBreaker(config): a new breaker, CLOSED
CreateCircuitBreaker(threshold) ==
  /\ failureThreshold = 0
  /\ failureThreshold' = threshold
  /\ UNCHANGED <<cbState, consecutiveFailures, lastFailureTime, probeInProgress>>
  /\ UNCHANGED <<now, callerVars>>
  /\ UNCHANGED BreakerFrame

\* time passes
Tick ==
  /\ failureThreshold > 0
  /\ now < MaxClock
  /\ now' = now + 1
  /\ UNCHANGED <<breakerVars, callerVars>>
  /\ UNCHANGED BreakerFrame

\* someone reads circuitBreaker.getStats()
GetStats ==
  /\ failureThreshold > 0
  /\ SetBreaker(getStats(Breaker, now))
  /\ UNCHANGED <<now, callerVars>>
  /\ UNCHANGED BreakerFrame

\* the catch block raises its own error in place of fn's
RethrownAsCircuitOpen(error) == CircuitOpenError

\* the catch block of execute: throw error
Rethrown(error) == error

\* caller c calls circuitBreaker.execute(fn): everything up to "await fn()"
BreakerExecute(c) ==
  /\ failureThreshold > 0
  /\ callPc[c] = "idle"
  /\ LET b == getStats(Breaker, now)
     IN IF Rejects(b)
        THEN /\ SetBreaker(b)
             /\ lastResult' = [caller |-> c, result |-> "CircuitOpenError"]
             /\ callPc' = callPc
             /\ raised' = CircuitOpenError
        ELSE /\ SetBreaker(admit(b))
             /\ callPc' = [callPc EXCEPT ![c] = IF b.state = "HALF_OPEN" THEN "probe" ELSE "closed"]
             /\ lastResult' = lastResult
             /\ raised' = NoError
  /\ thrown' = NoError
  /\ UNCHANGED <<now, failStreak, lastFailAt, lastSettledAs>>

Execute(c) ==
  /\ BreakerExecute(c)
  /\ UNCHANGED BreakerFrame

\* fn() of caller c resolves: recordSuccess, execute returns the value
BreakerFnSucceeds(c) ==
  /\ callPc[c] # "idle"
  /\ SetBreaker(recordSuccess(Breaker))
  /\ callPc' = [callPc EXCEPT ![c] = "idle"]
  /\ lastResult' = [caller |-> c, result |-> "value"]
  /\ failStreak' = 0
  /\ lastSettledAs' = callPc[c]
  /\ thrown' = NoError
  /\ raised' = NoError
  /\ UNCHANGED <<now, lastFailAt>>

FnSucceeds(c) ==
  /\ BreakerFnSucceeds(c)
  /\ UNCHANGED BreakerFrame

\* fn() of caller c rejects: recordFailure, execute rethrows the error
BreakerFnFails(c) ==
  /\ callPc[c] # "idle"
  /\ consecutiveFailures < MaxFailures
  /\ SetBreaker(recordFailure(Breaker, now))
  /\ callPc' = [callPc EXCEPT ![c] = "idle"]
  /\ lastResult' = [caller |-> c, result |-> "fnError"]
  /\ failStreak' = failStreak + 1
  /\ lastFailAt' = now
  /\ lastSettledAs' = callPc[c]
  /\ \E error \in Errors : thrown' = error
  /\ raised' = Rethrown(thrown')
  /\ UNCHANGED now

FnFails(c) ==
  /\ BreakerFnFails(c)
  /\ UNCHANGED BreakerFrame

BreakerInit ==
  /\ now = 1
  /\ failureThreshold = 0
  /\ cbState = "CLOSED"
  /\ consecutiveFailures = 0
  /\ lastFailureTime = NoInt
  /\ probeInProgress = FALSE
  /\ callPc = [c \in Callers |-> "idle"]
  /\ lastResult = [caller |-> 0, result |-> "none"]
  /\ failStreak = 0
  /\ lastFailAt = NoInt
  /\ lastSettledAs = "none"
  /\ thrown = NoError
  /\ raised = NoError

BreakerNext ==
  \/ \E threshold \in 1..MaxThreshold : CreateCircuitBreaker(threshold)
  \/ Tick
  \/ GetStats
  \/ \E c \in Callers : Execute(c)
  \/ \E c \in Callers : FnSucceeds(c)
  \/ \E c \in Callers : FnFails(c)

(***************************************************************************)
(* retryWithBackoff and isRetryableError: reliability/rate-limiter.ts      *)
(***************************************************************************)
Max(a, b) == IF a >= b THEN a ELSE b
Min(a, b) == IF a <= b THEN a ELSE b

RECURSIVE Pow(_, _)
Pow(b, e) == IF e = 0 THEN 1 ELSE b * Pow(b, e - 1)

\* only a ValidationError is not retried
isRetryableErrorByNameOnly(error) == error.name # "ValidationError"

isRetryableError(error) ==
  IF error.name = "ValidationError" \/ error.name = "AuthenticationError" THEN FALSE
  ELSE IF error.statusCode # NoInt /\ error.statusCode >= 400 /\ error.statusCode < 500 THEN FALSE
  ELSE IF error.statusCode # NoInt /\ error.statusCode >= 500 /\ error.statusCode < 600 THEN TRUE
  ELSE IF error.network THEN TRUE
  ELSE TRUE

RetryConfigs == [maxRetries : (0 - 1)..MaxRetriesBound,
                 initialDelayMs : 1..MaxInitialDelay,
                 backoffMultiplier : 1..MaxMultiplier,
                 maxDelayMs : 2..MaxDelayCap]

NoRetryConfig == [maxRetries |-> 0, initialDelayMs |-> 1, backoffMultiplier |-> 1,
                  maxDelayMs |-> 2]

NoRetryResult == [success |-> FALSE, attempts |-> 0, error |-> NoError]

\* the retries are used up one attempt early
RetriesExhaustedEarly(n, maxRetries) == n >= maxRetries

\* attempts > config.maxRetries
RetriesExhausted(n, maxRetries) == n > maxRetries

\* the exponential delay without the cap
BackoffDelayUncapped(config, n) == config.initialDelayMs * Pow(config.backoffMultiplier, n - 1)

\* Math.min(initialDelayMs * Math.pow(backoffMultiplier, attempts - 1), maxDelayMs)
BackoffDelay(config, n) ==
  Min(config.initialDelayMs * Pow(config.backoffMultiplier, n - 1), config.maxDelayMs)

\* retryWithBackoff is entered
RetryEnter(config) ==
  /\ retryConfig' = config
  /\ rtPc' = "loop"
  /\ attempts' = 0
  /\ fnCalls' = 0
  /\ rtResult' = NoRetryResult
  /\ rtDelay' = 0
  /\ rtDelays' = <<>>

\* the while test; when it holds, attempts++ and fn is invoked
RetryLoop ==
  /\ rtPc = "loop"
  /\ IF attempts <= retryConfig.maxRetries
     THEN /\ attempts' = attempts + 1
          /\ fnCalls' = fnCalls + 1
          /\ rtPc' = "fn"
          /\ rtResult' = rtResult
     ELSE /\ rtPc' = "done"
          /\ rtResult' = [success |-> FALSE, attempts |-> attempts, error |-> UnknownError]
          /\ UNCHANGED <<attempts, fnCalls>>
  /\ UNCHANGED <<retryConfig, rtDelay, rtDelays>>

\* fn() resolved in attempt n
RetryOnSuccess(n) ==
  /\ rtPc' = "done"
  /\ rtResult' = [success |-> TRUE, attempts |-> n, error |-> NoError]
  /\ rtDelay' = rtDelay
  /\ rtDelays' = rtDelays

\* the catch block, for the error thrown in attempt n
RetryOnError(error, n) ==
  IF ~isRetryableError(error) \/ RetriesExhausted(n, retryConfig.maxRetries)
  THEN /\ rtPc' = "done"
       /\ rtResult' = [success |-> FALSE, attempts |-> n, error |-> error]
       /\ rtDelay' = rtDelay
       /\ rtDelays' = rtDelays
  ELSE /\ rtPc' = "sleep"
       /\ rtDelay' = BackoffDelay(retryConfig, n)
       /\ rtDelays' = Append(rtDelays, BackoffDelay(retryConfig, n))
       /\ rtResult' = rtResult

\* ---- retryWithBackoff called on its own, with any fn
RetryWithBackoff(config) ==
  /\ rtPc = "idle"
  /\ RetryEnter(config)
  /\ UNCHANGED RetryFrame

Attempt ==
  /\ RetryLoop
  /\ UNCHANGED RetryFrame

FnReturns ==
  /\ rtPc = "fn"
  /\ RetryOnSuccess(attempts)
  /\ UNCHANGED <<retryConfig, attempts, fnCalls>>
  /\ UNCHANGED RetryFrame

FnThrows(error) ==
  /\ rtPc = "fn"
  /\ RetryOnError(error, attempts)
  /\ UNCHANGED <<retryConfig, attempts, fnCalls>>
  /\ UNCHANGED RetryFrame

\* the values that are no Error which fn may throw: a string, a string naming a
\* network failure, and a value String() cannot convert (Object.create(null))
NonErrors == {"text", "network text", "unprintable"}

\* String(error) throws a TypeError
StringThrows(v) == v = "unprintable"

\* new Error(String(error))
AsError(v) == [name |-> "Error", statusCode |-> NoInt, network |-> (v = "network text")]

\* fn throws a value that is not an Error: the catch block wraps it, and what
\* the wrapping throws leaves the catch block
FnThrowsNonError(v) ==
  /\ rtPc = "fn"
  /\ IF StringThrows(v)
     THEN /\ rtPc' = "escaped"
          /\ UNCHANGED <<rtResult, rtDelay, rtDelays>>
     ELSE RetryOnError(AsError(v), attempts)
  /\ UNCHANGED <<retryConfig, attempts, fnCalls>>
  /\ UNCHANGED RetryFrame

\* the backoff timer fires
Wake ==
  /\ rtPc = "sleep"
  /\ rtPc' = "loop"
  /\ UNCHANGED <<retryConfig, attempts, fnCalls, rtResult, rtDelay, rtDelays>>
  /\ UNCHANGED RetryFrame

RetryInit ==
  /\ retryConfig = NoRetryConfig
  /\ rtPc = "idle"
  /\ attempts = 0
  /\ fnCalls = 0
  /\ rtResult = NoRetryResult
  /\ rtDelay = 0
  /\ rtDelays = <<>>

RetryNext ==
  \/ \E config \in RetryConfigs : RetryWithBackoff(config)
  \/ Attempt
  \/ FnReturns
  \/ \E error \in Errors : FnThrows(error)
  \/ \E v \in NonErrors : FnThrowsNonError(v)
  \/ Wake

(***************************************************************************)
(* Rate limiter: createRateLimiter                                         *)
(***************************************************************************)
\* the sliding window (60000 ms in the source), in clock ticks
windowMs == 3

LimiterConfigs == [requestsPerMinute : 1..MaxRate, minDelayMs : 0..MaxMinDelay,
                   jitterMs : 0..MaxJitter]

NoLimiterConfig == [requestsPerMinute |-> 1, minDelayMs |-> 0, jitterMs |-> 0]

\* shift timestamps older than the window off the front
RECURSIVE cleanOldRequests(_, _)
cleanOldRequests(ts, t) ==
  IF Len(ts) > 0 /\ ts[1] < t - windowMs THEN cleanOldRequests(Tail(ts), t) ELSE ts

\* calculateDelay(now) with Math.random() * jitterMs = jitter.  With no timestamp
\* left after the cleaning, lastRequest is undefined and the result is NaN:
\* NoInt, which like NaN fails the test delay > 0.
calculateDelay(ts0, t, config, jitter) ==
  LET ts == cleanOldRequests(ts0, t)
  IN IF Len(ts) = 0 THEN NoInt
     ELSE LET minRequiredDelay == Max(0, config.minDelayMs - (t - ts[Len(ts)]))
              baseDelay == IF Len(ts) >= config.requestsPerMinute
                           THEN Max(ts[1] + windowMs - t, minRequiredDelay)
                           ELSE minRequiredDelay
          IN baseDelay + jitter

\* ---- the limiter used by itself, by several callers
Acquirers == 1..NumAcquirers

\* the configurations with a minimum delay longer than the window
SlowLimiterConfigs == [requestsPerMinute : 1..MaxRate, minDelayMs : {LongMinDelay},
                       jitterMs : {0}]

\* createRateLimiter(config)
CreateRateLimiter(config) ==
  /\ \A a \in Acquirers : acqPc[a] = "none"
  /\ acqPc' = [a \in Acquirers |-> "idle"]
  /\ limiterConfig' = config
  /\ UNCHANGED <<now, requestTimestamps, acqWake, grants, overlapped>>
  /\ UNCHANGED LimiterFrame

\* acquire() is called by a: up to its await, or to its return when it does not wait
Acquire(a, jitter) ==
  /\ acqPc[a] = "idle"
  /\ Len(grants) + Cardinality({b \in Acquirers : acqPc[b] = "waiting"}) < MaxAcquires
  /\ jitter = 0 \/ jitter < limiterConfig.jitterMs
  /\ overlapped' = (overlapped \/ \E b \in Acquirers : acqPc[b] = "waiting")
  /\ IF Len(requestTimestamps) = 0
     THEN /\ requestTimestamps' = Append(requestTimestamps, now)
          /\ grants' = Append(grants, now)
          /\ UNCHANGED <<acqPc, acqWake>>
     ELSE LET delay == calculateDelay(requestTimestamps, now, limiterConfig, jitter)
          IN IF delay > 0
             THEN /\ requestTimestamps' = cleanOldRequests(requestTimestamps, now)
                  /\ acqPc' = [acqPc EXCEPT ![a] = "waiting"]
                  /\ acqWake' = [acqWake EXCEPT ![a] = now + delay]
                  /\ grants' = grants
             ELSE /\ requestTimestamps' = Append(cleanOldRequests(requestTimestamps, now), now)
                  /\ grants' = Append(grants, now)
                  /\ UNCHANGED <<acqPc, acqWake>>
  /\ UNCHANGED <<now, limiterConfig>>
  /\ UNCHANGED LimiterFrame

\* the timer of a fires: the timestamp is pushed and acquire() returns
AcquireTimer(a) ==
  /\ acqPc[a] = "waiting"
  /\ now >= acqWake[a]
  /\ requestTimestamps' = Append(requestTimestamps, now)
  /\ grants' = Append(grants, now)
  /\ acqPc' = [acqPc EXCEPT ![a] = "idle"]
  /\ acqWake' = [acqWake EXCEPT ![a] = 0]
  /\ UNCHANGED <<now, limiterConfig, overlapped>>
  /\ UNCHANGED LimiterFrame

\* a getStats() that records its own call in the window
LimiterGetStatsTakesSlot ==
  /\ \A a \in Acquirers : acqPc[a] # "none"
  /\ requestTimestamps' = Append(cleanOldRequests(requestTimestamps, now), now)
  /\ UNCHANGED <<now, limiterConfig, acquireVars>>
  /\ UNCHANGED LimiterFrame

\* rateLimiter.getStats(): the window is cleaned
LimiterGetStats ==
  /\ \A a \in Acquirers : acqPc[a] # "none"
  /\ requestTimestamps' = cleanOldRequests(requestTimestamps, now)
  /\ UNCHANGED <<now, limiterConfig, acquireVars>>
  /\ UNCHANGED LimiterFrame

\* time passes, up to the next timer that is due
LimiterTick ==
  /\ \A a \in Acquirers : acqPc[a] # "none"
  /\ \A a \in Acquirers : acqPc[a] = "waiting" => now < acqWake[a]
  /\ now < MaxClock
  /\ now' = now + 1
  /\ UNCHANGED <<limiterVars, acquireVars>>
  /\ UNCHANGED LimiterFrame

AcquireInit ==
  /\ acqPc = [a \in Acquirers |-> "none"]
  /\ acqWake = [a \in Acquirers |-> 0]
  /\ grants = <<>>
  /\ overlapped = FALSE

LimiterNext ==
  \/ \E config \in LimiterConfigs \cup SlowLimiterConfigs : CreateRateLimiter(config)
  \/ \E a \in Acquirers, jitter \in 0..MaxJitter : Acquire(a, jitter)
  \/ \E a \in Acquirers : AcquireTimer(a)
  \/ LimiterGetStats
  \/ LimiterTick

(***************************************************************************)
(* Reliability wrapper: createReliabilityWrapper                           *)
(***************************************************************************)
\* the retry configurations of the wrapper's runs
WrapperRetryConfigs == {c \in RetryConfigs : c.initialDelayMs = 1 /\ c.maxDelayMs = 2}

\* the errors fn throws in the wrapper's runs
FnErrors == {e \in Errors : e.network = FALSE /\ (e.name = "Error" \/ e.statusCode = NoInt)
                            /\ e.name # "AuthenticationError"}

\* fetchProductsFromApi, response not ok: new Error(`API request failed:
\* ${status} ${statusText}`), a plain Error without a statusCode property; of
\* the 4xx status texts only "Request Timeout" (408) holds a network pattern
ApiRequestFailed(status) ==
  [name |-> "Error", statusCode |-> NoInt, network |-> (status = 408)]

\* the closure handed to retryWithBackoff acquires the rate limiter itself
ClosureAcquiresAlways == TRUE

\* the closure handed to retryWithBackoff only calls circuitBreaker.execute(fn)
ClosureAcquires == FALSE

\* createReliabilityWrapper(config): a limiter and a breaker are created
CreateReliabilityWrapper(limiter, retry, threshold) ==
  /\ exPc = "none"
  /\ exPc' = "idle"
  /\ limiterConfig' = limiter
  /\ retryConfig' = retry
  /\ failureThreshold' = threshold
  /\ UNCHANGED <<cbState, consecutiveFailures, lastFailureTime, probeInProgress>>
  /\ UNCHANGED <<now, callerVars, requestTimestamps, wakeAt, acquireCalls, exResult, executes,
                 fnInvocations, openAtCall, atCall>>
  /\ UNCHANGED <<rtPc, attempts, fnCalls, rtResult, rtDelay, rtDelays>>
  /\ UNCHANGED ExecFrame

\* after acquire(): rateLimiter.getStats() cleans the window, then
\* retryWithBackoff is entered
AfterAcquire ==
  /\ requestTimestamps' = cleanOldRequests(Append(requestTimestamps, now), now)
  /\ exPc' = "retry"
  /\ RetryEnter(retryConfig)

\* execute(fn) is called: rateLimiter.acquire() up to its await
WrapperExecute(jitter) ==
  /\ exPc = "idle"
  /\ jitter = 0 \/ jitter < limiterConfig.jitterMs
  /\ executes < MaxExecutes
  /\ executes' = executes + 1
  /\ acquireCalls' = 1
  /\ fnInvocations' = 0
  /\ openAtCall' = (getStats(Breaker, now).state = "OPEN")
  /\ atCall' = [failures |-> consecutiveFailures, time |-> now]
  /\ exResult' = "none"
  /\ IF Len(requestTimestamps) = 0
     THEN /\ AfterAcquire
          /\ wakeAt' = wakeAt
     ELSE LET delay == calculateDelay(requestTimestamps, now, limiterConfig, jitter)
          IN IF delay > 0
             THEN /\ requestTimestamps' = cleanOldRequests(requestTimestamps, now)
                  /\ exPc' = "acquire"
                  /\ wakeAt' = now + delay
                  /\ UNCHANGED retryVars
             ELSE /\ requestTimestamps' =
                       cleanOldRequests(Append(cleanOldRequests(requestTimestamps, now), now), now)
                  /\ exPc' = "retry"
                  /\ RetryEnter(retryConfig)
                  /\ wakeAt' = wakeAt
  /\ UNCHANGED <<now, breakerVars, callerVars, limiterConfig>>
  /\ UNCHANGED ExecFrame

\* the limiter's timer fires: the timestamp is pushed and acquire() returns
AcquireWake ==
  /\ exPc = "acquire"
  /\ now >= wakeAt
  /\ AfterAcquire
  /\ UNCHANGED <<now, breakerVars, callerVars, limiterConfig, wakeAt, acquireCalls,
                 fnInvocations, openAtCall, atCall,
                 exResult, executes>>
  /\ UNCHANGED ExecFrame

\* one pass of the retry loop: the closure calls circuitBreaker.execute(fn),
\* which rejects at once or invokes fn
ExecAttempt ==
  /\ exPc = "retry"
  /\ rtPc = "loop"
  /\ IF attempts <= retryConfig.maxRetries
     THEN /\ attempts' = attempts + 1
          /\ fnCalls' = fnCalls + 1
          /\ retryConfig' = retryConfig
          /\ BreakerExecute(1)
          /\ fnInvocations' = IF callPc'[1] = "idle" THEN fnInvocations ELSE fnInvocations + 1
          /\ IF callPc'[1] = "idle"
             THEN /\ RetryOnError(CircuitOpenError, attempts')
                  /\ wakeAt' = IF rtPc' = "sleep" THEN now + rtDelay' ELSE wakeAt
             ELSE /\ rtPc' = "fn"
                  /\ UNCHANGED <<rtResult, rtDelay, rtDelays, wakeAt>>
          /\ IF ClosureAcquires
             THEN /\ acquireCalls' = acquireCalls + 1
                  /\ requestTimestamps' = Append(requestTimestamps, now)
             ELSE UNCHANGED <<acquireCalls, requestTimestamps>>
     ELSE /\ RetryLoop
          /\ UNCHANGED <<now, breakerVars, callerVars, wakeAt, acquireCalls, requestTimestamps,
                         fnInvocations>>
  /\ UNCHANGED <<limiterConfig, exPc, exResult, executes, openAtCall, atCall>>
  /\ UNCHANGED ExecFrame

\* fn() resolves inside circuitBreaker.execute: the wrapper's part
FnResolvedInExecute ==
  /\ exPc = "retry"
  /\ rtPc = "fn"
  /\ BreakerFnSucceeds(1)
  /\ RetryOnSuccess(attempts)
  /\ UNCHANGED <<retryConfig, attempts, fnCalls>>
  /\ UNCHANGED <<limiterVars, wrapperVars>>

\* fn() resolves inside circuitBreaker.execute
ExecFnReturns ==
  /\ FnResolvedInExecute
  /\ UNCHANGED ExecFrame

\* fn() rejects inside circuitBreaker.execute, which rethrows the error: the
\* wrapper's part
FnRejectedInExecute(error) ==
  /\ exPc = "retry"
  /\ rtPc = "fn"
  /\ BreakerFnFails(1)
  /\ thrown' = error
  /\ RetryOnError(raised', attempts)
  /\ wakeAt' = IF rtPc' = "sleep" THEN now + rtDelay' ELSE wakeAt
  /\ UNCHANGED <<retryConfig, attempts, fnCalls>>
  /\ UNCHANGED <<limiterVars, exPc, acquireCalls, exResult, executes, fnInvocations, openAtCall, atCall>>

\* fn() rejects inside circuitBreaker.execute, which rethrows the error
ExecFnThrows(error) ==
  /\ FnRejectedInExecute(error)
  /\ UNCHANGED ExecFrame

\* the backoff timer fires
ExecWake ==
  /\ exPc = "retry"
  /\ rtPc = "sleep"
  /\ now >= wakeAt
  /\ rtPc' = "loop"
  /\ UNCHANGED <<retryConfig, attempts, fnCalls, rtResult, rtDelay, rtDelays>>
  /\ UNCHANGED <<now, breakerVars, callerVars, limiterVars, wrapperVars>>
  /\ UNCHANGED ExecFrame

\* retryWithBackoff returned: execute logs circuitBreaker.getStats().state and
\* returns the value or throws result.error
WrapperReturn ==
  /\ exPc = "retry"
  /\ rtPc = "done"
  /\ exPc' = "idle"
  /\ exResult' = IF rtResult.success THEN "value" ELSE rtResult.error.name
  /\ SetBreaker(getStats(Breaker, now))
  /\ UNCHANGED <<now, callerVars, retryVars, limiterVars, wakeAt, acquireCalls, executes,
                 fnInvocations, openAtCall, atCall>>
  /\ UNCHANGED ExecFrame

WrapperInit ==
  /\ limiterConfig = NoLimiterConfig
  /\ requestTimestamps = <<>>
  /\ exPc = "none"
  /\ wakeAt = 0
  /\ acquireCalls = 0
  /\ fnInvocations = 0
  /\ openAtCall = FALSE
  /\ atCall = [failures |-> 0, time |-> 0]
  /\ exResult = "none"
  /\ executes = 0

ExecNext ==
  \/ \E limiter \in LimiterConfigs, retry \in WrapperRetryConfigs, threshold \in 1..MaxThreshold :
       CreateReliabilityWrapper(limiter, retry, threshold)
  \/ Tick
  \/ \E jitter \in 0..MaxJitter : WrapperExecute(jitter)
  \/ AcquireWake
  \/ ExecAttempt
  \/ ExecFnReturns
  \/ \E error \in FnErrors : ExecFnThrows(error)
  \/ ExecWake
  \/ WrapperReturn

(***************************************************************************)
(* A page fetch: NewWorldScraper.scrapeCategory, fetchProductsFromApi       *)
(***************************************************************************)
\* the statuses the products API answers with
Statuses == {200, 401, 404}

\* the Errors fetchProductsFromApi and refreshToken throw: plain Errors whose
\* message holds no network pattern
PlainError == [name |-> "Error", statusCode |-> NoInt, network |-> FALSE]

\* the limiter configurations of the page-fetch runs
FetchLimiterConfigs == {c \in LimiterConfigs : c.jitterMs = 0 /\ c.requestsPerMinute = MaxRate}

\* fn is invoked: the request is sent and answered.  200: the products are
\* returned; 401: refreshToken() is called; otherwise `API request failed`
FetchSend(status) ==
  /\ exPc = "retry"
  /\ rtPc = "fn"
  /\ fetchPc = "idle"
  /\ IF status = 401
     THEN /\ fetchPc' = "refresh"
          /\ refreshesOf' = [refreshesOf EXCEPT ![executes] = @ + 1]
          /\ UNCHANGED <<now, breakerVars, callerVars, retryVars, limiterVars, wrapperVars,
                         resendsOf>>
     ELSE /\ IF status = 200 THEN FnResolvedInExecute /\ UNCHANGED <<thrown, raised>>
                             ELSE FnRejectedInExecute(ApiRequestFailed(status))
          /\ UNCHANGED fetchVars
  /\ UNCHANGED FetchFrame

\* refreshToken() settles: the request is sent again with the new token, or
\* `Failed to capture new authorization token during refresh` leaves fn
FetchRefresh(ok) ==
  /\ exPc = "retry"
  /\ rtPc = "fn"
  /\ fetchPc = "refresh"
  /\ IF ok
     THEN /\ fetchPc' = "resend"
          /\ resendsOf' = [resendsOf EXCEPT ![executes] = @ + 1]
          /\ UNCHANGED <<now, breakerVars, callerVars, retryVars, limiterVars, wrapperVars>>
     ELSE /\ fetchPc' = "idle"
          /\ resendsOf' = resendsOf
          /\ FnRejectedInExecute(PlainError)
  /\ UNCHANGED refreshesOf
  /\ UNCHANGED FetchFrame

\* the request sent again is answered: the products are returned, or
\* `API request failed after token refresh` leaves fn
FetchResend(status) ==
  /\ exPc = "retry"
  /\ rtPc = "fn"
  /\ fetchPc = "resend"
  /\ fetchPc' = "idle"
  /\ IF status = 200 THEN FnResolvedInExecute /\ UNCHANGED <<thrown, raised>>
                     ELSE FnRejectedInExecute(PlainError)
  /\ UNCHANGED <<refreshesOf, resendsOf>>
  /\ UNCHANGED FetchFrame

FetchInit ==
  /\ fetchPc = "idle"
  /\ refreshesOf = [e \in 1..MaxExecutes |-> 0]
  /\ resendsOf = [e \in 1..MaxExecutes |-> 0]

FetchNext ==
  \/ \E limiter \in FetchLimiterConfigs, retry \in WrapperRetryConfigs,
        threshold \in 1..MaxThreshold :
       CreateReliabilityWrapper(limiter, retry, threshold)
  \/ Tick
  \/ \E jitter \in 0..MaxJitter : WrapperExecute(jitter)
  \/ AcquireWake
  \/ ExecAttempt
  \/ \E status \in Statuses : FetchSend(status)
  \/ \E ok \in BOOLEAN : FetchRefresh(ok)
  \/ \E status \in Statuses : FetchResend(status)
  \/ ExecWake
  \/ WrapperReturn

(***************************************************************************)
(* The token refresh of one scraper: NewWorldScraper.refreshToken           *)
(***************************************************************************)
RefreshCallers == 1..NumRefreshCallers

\* a mutant of RefreshInProgress: the busy flag is not looked at
RefreshInProgressIgnored == FALSE

\* `if (this.isRefreshing)`
RefreshInProgress == isRefreshing

\* refreshToken() is called.  With the flag set the caller enters the polling
\* loop; otherwise it sets the flag, clears the token and awaits page.goto.
\* No await lies between the test and the assignment of the flag.
RefreshToken(c) ==
  /\ rfPc[c] \in {"idle", "returned", "threw"}
  /\ IF RefreshInProgress
     THEN /\ rfPc' = [rfPc EXCEPT ![c] = "polling"]
          /\ rfAwaits' = [rfAwaits EXCEPT ![c] = refreshesStarted]
          /\ UNCHANGED <<isRefreshing, authorizationToken, refreshesStarted>>
     ELSE /\ refreshesStarted < MaxRefreshes
          /\ isRefreshing' = TRUE
          /\ authorizationToken' = FALSE
          /\ refreshesStarted' = refreshesStarted + 1
          /\ rfPc' = [rfPc EXCEPT ![c] = "goto"]
          /\ rfAwaits' = [rfAwaits EXCEPT ![c] = 0]
  /\ UNCHANGED rfFinished
  /\ UNCHANGED RefreshFrame

\* the 100 ms timer of the polling loop fires: `while (this.isRefreshing)` is
\* tested again, and the caller returns when the flag is clear
RefreshPoll(c) ==
  /\ rfPc[c] = "polling"
  /\ rfPc' = [rfPc EXCEPT ![c] = IF isRefreshing THEN "polling" ELSE "returned"]
  /\ UNCHANGED <<isRefreshing, authorizationToken, refreshesStarted, rfAwaits, rfFinished>>
  /\ UNCHANGED RefreshFrame

\* page.goto settles: with a token captured the call returns, without one it
\* throws; the finally block clears the flag either way
RefreshSettle(c, captured) ==
  /\ rfPc[c] = "goto"
  /\ authorizationToken' = captured
  /\ isRefreshing' = FALSE
  /\ rfFinished' = rfFinished \cup {refreshesStarted}
  /\ rfPc' = [rfPc EXCEPT ![c] = IF captured THEN "returned" ELSE "threw"]
  /\ UNCHANGED <<refreshesStarted, rfAwaits>>
  /\ UNCHANGED RefreshFrame

RefreshInit ==
  /\ isRefreshing = FALSE
  /\ authorizationToken = TRUE
  /\ rfPc = [c \in RefreshCallers |-> "idle"]
  /\ refreshesStarted = 0
  /\ rfAwaits = [c \in RefreshCallers |-> 0]
  /\ rfFinished = {}

RefreshNext ==
  \/ \E c \in RefreshCallers : RefreshToken(c)
  \/ \E c \in RefreshCallers : RefreshPoll(c)
  \/ \E c \in RefreshCallers, captured \in BOOLEAN : RefreshSettle(c, captured)

(***************************************************************************)
(* The assignment of tasks to scrapers: MultiCategoryScraper.run            *)
(***************************************************************************)
WorkIndexes == 0..(NumWorkItems - 1)

\* this.scrapers[index % this.scrapers.length]
scraperIndex(index, length) == index % length

\* the tasks p-limit is running
LimitActive == {k \in WorkIndexes : limitPc[k] = "active"}

\* run(): concurrency scrapers are created and one task per category is handed
\* to limit()
AssignRun(categories, concurrency) ==
  /\ scrapers = 0
  /\ scrapers' = concurrency
  /\ limitPc' = [k \in WorkIndexes |-> IF k < categories THEN "queued" ELSE "none"]
  /\ UNCHANGED AssignFrame

\* p-limit starts the next queued task when fewer than concurrency are running
AssignStart(k) ==
  /\ scrapers > 0
  /\ limitPc[k] = "queued"
  /\ \A j \in WorkIndexes : j < k => limitPc[j] # "queued"
  /\ Cardinality(LimitActive) < scrapers
  /\ limitPc' = [limitPc EXCEPT ![k] = "active"]
  /\ UNCHANGED scrapers
  /\ UNCHANGED AssignFrame

\* scrapeCategory of task k settles
AssignSettle(k) ==
  /\ limitPc[k] = "active"
  /\ limitPc' = [limitPc EXCEPT ![k] = "done"]
  /\ UNCHANGED scrapers
  /\ UNCHANGED AssignFrame

\* Promise.all(tasks) has resolved: the scrapers are closed
AssignClose ==
  /\ scrapers > 0
  /\ \A k \in WorkIndexes : limitPc[k] \in {"none", "done"}
  /\ scrapers' = 0
  /\ limitPc' = [k \in WorkIndexes |-> "none"]
  /\ UNCHANGED AssignFrame

AssignInit ==
  /\ scrapers = 0
  /\ limitPc = [k \in WorkIndexes |-> "none"]

AssignNext ==
  \/ \E categories \in 1..NumWorkItems, concurrency \in 1..MaxWorkers :
       AssignRun(categories, concurrency)
  \/ \E k \in WorkIndexes : AssignStart(k)
  \/ \E k \in WorkIndexes : AssignSettle(k)
  \/ AssignClose

(***************************************************************************)
(* The scraper pool: MultiCategoryScraper.run, NewWorldScraper              *)
(***************************************************************************)
Workers == 1..MaxConcurrency

\* run(): for (i < concurrency) new NewWorldScraper(...); the constructor calls
\* createReliabilityWrapper(config.reliability), which calls createRateLimiter
InitPool(concurrency, config) ==
  /\ \A w \in Workers : wkPc[w] = "none"
  /\ wkPc' = [w \in Workers |-> IF w <= concurrency THEN "idle" ELSE "none"]
  /\ poolConfig' = config
  /\ UNCHANGED <<now, wkTimestamps, wkWake, upstream>>
  /\ UNCHANGED PoolFrame

\* the scraper of worker w calls reliability.execute(fn): acquire() on the
\* limiter of its own wrapper; when acquire() returns fn makes the upstream call
WorkerExecute(w, jitter) ==
  /\ wkPc[w] = "idle"
  /\ Len(upstream) + Cardinality({v \in Workers : wkPc[v] = "waiting"}) < MaxUpstream
  /\ jitter = 0 \/ jitter < poolConfig.jitterMs
  /\ IF Len(wkTimestamps[w]) = 0
     THEN /\ wkTimestamps' = [wkTimestamps EXCEPT ![w] = Append(@, now)]
          /\ upstream' = Append(upstream, now)
          /\ UNCHANGED <<wkPc, wkWake>>
     ELSE LET delay == calculateDelay(wkTimestamps[w], now, poolConfig, jitter)
          IN IF delay > 0
             THEN /\ wkTimestamps' = [wkTimestamps EXCEPT ![w] = cleanOldRequests(@, now)]
                  /\ wkPc' = [wkPc EXCEPT ![w] = "waiting"]
                  /\ wkWake' = [wkWake EXCEPT ![w] = now + delay]
                  /\ upstream' = upstream
             ELSE /\ wkTimestamps' = [wkTimestamps EXCEPT ![w] =
                                         Append(cleanOldRequests(@, now), now)]
                  /\ upstream' = Append(upstream, now)
                  /\ UNCHANGED <<wkPc, wkWake>>
  /\ UNCHANGED <<now, poolConfig>>
  /\ UNCHANGED PoolFrame

\* the acquire() timer of worker w fires: acquire() returns and fn makes the call
WorkerTimer(w) ==
  /\ wkPc[w] = "waiting"
  /\ now >= wkWake[w]
  /\ wkTimestamps' = [wkTimestamps EXCEPT ![w] = Append(@, now)]
  /\ upstream' = Append(upstream, now)
  /\ wkPc' = [wkPc EXCEPT ![w] = "idle"]
  /\ wkWake' = [wkWake EXCEPT ![w] = 0]
  /\ UNCHANGED <<now, poolConfig>>
  /\ UNCHANGED PoolFrame

\* time passes, up to the next timer that is due
PoolTick ==
  /\ \E w \in Workers : wkPc[w] # "none"
  /\ \A w \in Workers : wkPc[w] = "waiting" => now < wkWake[w]
  /\ now < MaxClock
  /\ now' = now + 1
  /\ UNCHANGED poolVars
  /\ UNCHANGED PoolFrame

PoolInit ==
  /\ poolConfig = NoLimiterConfig
  /\ wkPc = [w \in Workers |-> "none"]
  /\ wkTimestamps = [w \in Workers |-> <<>>]
  /\ wkWake = [w \in Workers |-> 0]
  /\ upstream = <<>>

PoolNext ==
  \/ \E concurrency \in 1..MaxConcurrency, config \in LimiterConfigs :
        InitPool(concurrency, config)
  \/ \E w \in Workers, jitter \in 0..MaxJitter : WorkerExecute(w, jitter)
  \/ \E w \in Workers : WorkerTimer(w)
  \/ PoolTick

(***************************************************************************)
(* Specifications                                                          *)
(***************************************************************************)
\* every component in its state after construction
Init ==
  /\ RunInit
  /\ StoreInit
  /\ BreakerInit
  /\ RetryInit
  /\ WrapperInit
  /\ AcquireInit
  /\ PoolInit
  /\ FetchInit
  /\ RefreshInit
  /\ AssignInit

SpecRun == Init /\ [][RunNext]_vars

SpecStore == Init /\ [][StoreNext]_vars

SpecBreaker == Init /\ [][BreakerNext]_vars

SpecRetry == Init /\ [][RetryNext]_vars

SpecExec == Init /\ [][ExecNext]_vars

SpecLimiter == Init /\ [][LimiterNext]_vars

SpecPool == Init /\ [][PoolNext]_vars

SpecFetch == Init /\ [][FetchNext]_vars

SpecRefresh == Init /\ [][RefreshNext]_vars

SpecAssign == Init /\ [][AssignNext]_vars

(***************************************************************************)
(* Claims about the reliability wrapper and retryWithBackoff               *)
(***************************************************************************)
\* C1: execute(fn) calls RateLimiter.acquire() exactly once, before the first
\* attempt, however many attempts the retry loop then makes.
C1_AcquireOncePerExecute ==
  /\ exPc \in {"acquire", "retry"} => acquireCalls = 1
  /\ exResult # "none" => acquireCalls = 1
  /\ exPc = "acquire" => rtPc \in {"idle", "done"}
  /\ (exPc = "retry" /\ fnCalls > 0) => Len(requestTimestamps) > 0

\* an execute() that made three attempts has returned
C1_Witness ==
  /\ exPc = "idle"
  /\ exResult # "none"
  /\ rtResult.attempts >= 3
  /\ acquireCalls = 1

\* C19: retryWithBackoff never lets an exception escape: whatever fn throws, it
\* ends with a success result or with a failure result carrying the final
\* error, each with the attempt count.
C19_NoExceptionEscapes ==
  /\ rtPc # "escaped"
  /\ rtPc = "done" =>
        /\ rtResult.attempts = attempts
        /\ rtResult.success \/ rtResult.error # NoError

\* initial * multiplier^(k-1), by repeated multiplication
RECURSIVE Exponential(_, _, _)
Exponential(initial, multiplier, k) ==
  IF k = 1 THEN initial ELSE multiplier * Exponential(initial, multiplier, k - 1)

\* C20: the delay waited before retry k is
\* min(initialDelayMs * backoffMultiplier^(k-1), maxDelayMs); with
\* initialDelayMs = 1 and backoffMultiplier = 2 (in units of 1000 ms) the first
\* two delays are 1 and 2; no delay exceeds maxDelayMs.
C20_BackoffDelays ==
  rtPc # "idle" =>
    /\ \A k \in 1..Len(rtDelays) :
          /\ rtDelays[k] = LET e == Exponential(retryConfig.initialDelayMs,
                                                 retryConfig.backoffMultiplier, k)
                            IN IF e <= retryConfig.maxDelayMs THEN e
                               ELSE retryConfig.maxDelayMs
          /\ rtDelays[k] <= retryConfig.maxDelayMs
    /\ (retryConfig.initialDelayMs = 1 /\ retryConfig.backoffMultiplier = 2) =>
          /\ Len(rtDelays) >= 1 => rtDelays[1] = 1
          /\ Len(rtDelays) >= 2 => rtDelays[2] = 2
    /\ rtPc = "sleep" => (rtDelays # <<>> /\ rtDelay = rtDelays[Len(rtDelays)])
    /\ Len(rtDelays) = (IF rtPc \in {"sleep", "loop"} THEN attempts ELSE attempts - 1)
         \/ rtPc \in {"done", "escaped"}

\* three retries were waited for: 1, 2, and the third capped at maxDelayMs = 3
C20_Witness ==
  /\ retryConfig.initialDelayMs = 1
  /\ retryConfig.backoffMultiplier = 2
  /\ retryConfig.maxDelayMs = 3
  /\ rtDelays = <<1, 2, 3>>
  /\ rtPc = "done"

\* C10: retryWithBackoff invokes fn at most 1 + maxRetries times, exactly that
\* many times when every attempt fails with a retryable error, and the attempts
\* it reports is the number of invocations.
C10_RetryInvocationCount ==
  rtPc # "idle" =>
    /\ fnCalls <= 1 + retryConfig.maxRetries
    /\ attempts = fnCalls
    /\ rtPc = "done" => rtResult.attempts = fnCalls
    /\ (rtPc = "done" /\ ~rtResult.success /\ isRetryableError(rtResult.error)) =>
          fnCalls = 1 + retryConfig.maxRetries

\* a call with maxRetries = 3 gave up after four retryable failures
C10_Witness ==
  /\ rtPc = "done"
  /\ retryConfig.maxRetries = 3
  /\ ~rtResult.success
  /\ isRetryableError(rtResult.error)
  /\ fnCalls = 4

\* the bound of C38, no less than zero
InvocationBound ==
  LET m == Min(1 + retryConfig.maxRetries, failureThreshold - atCall.failures)
  IN IF m < 0 THEN 0 ELSE m

\* resetTimeoutMs has not elapsed since execute() was called
WithinResetTimeout == now - atCall.time < ResetTimeout

\* C38 as stated: within one execute() call with no concurrent caller fn is
\* invoked at most min(1 + maxRetries, failureThreshold - c) times, c being the
\* consecutive-failure count when the call starts, provided resetTimeoutMs does
\* not elapse during the call
C38_InvocationsBoundedByThreshold ==
  (exPc \in {"idle", "retry"} /\ executes > 0 /\ WithinResetTimeout) =>
     fnInvocations <= InvocationBound

\* C38, amended: within one execute() call with no concurrent caller that
\* starts while the breaker is CLOSED (c < failureThreshold), every failed
\* attempt of fn adds one to the consecutive-failure count and fn is invoked at
\* most min(1 + maxRetries, failureThreshold - c) times, provided
\* resetTimeoutMs does not elapse during the call; a call that starts when the
\* breaker has left CLOSED invokes fn at most once in that time, as the
\* HALF_OPEN probe.
C38_InvocationsBoundedWhileClosed ==
  /\ (exPc \in {"idle", "retry"} /\ executes > 0 /\ WithinResetTimeout) =>
        fnInvocations <= (IF atCall.failures < failureThreshold THEN InvocationBound ELSE 1)
  /\ (exPc = "retry" /\ rtPc \in {"loop", "sleep"} /\ WithinResetTimeout
        /\ atCall.failures < failureThreshold) =>
        consecutiveFailures = atCall.failures + fnInvocations

\* a call that started with one failure on the count and threshold 2 invoked
\* fn once, though it had retries left, and ended rejected by the breaker
C38_Witness ==
  /\ exPc = "idle"
  /\ failureThreshold = 2
  /\ atCall.failures = 1
  /\ retryConfig.maxRetries >= 1
  /\ fnInvocations = 1
  /\ fnCalls > 1
  /\ WithinResetTimeout

\* C12 as stated: an execute() called while the breaker is OPEN never invokes
\* fn, on any attempt, and ends by throwing CircuitOpenError.
C12_OpenCallNeverInvokesFn ==
  (exPc \in {"idle", "acquire", "retry"} /\ openAtCall) =>
     /\ fnInvocations = 0
     /\ exResult \in {"none", "CircuitOpenError"}

\* C12, amended: every attempt made while the breaker is OPEN and less than
\* resetTimeoutMs has elapsed since the last recorded failure is rejected by
\* the breaker without invoking fn, and an execute() whose attempts were all
\* rejected ends by throwing CircuitOpenError.
C12_OpenRejectsAttemptsUntilTimeout ==
  /\ [][(/\ ExecAttempt
          /\ attempts <= retryConfig.maxRetries
          /\ cbState = "OPEN"
          /\ now - lastFailureTime < ResetTimeout) =>
            /\ fnInvocations' = fnInvocations
            /\ callPc'[1] = "idle"
            /\ cbState' = "OPEN"
            /\ lastResult' = [caller |-> 1, result |-> "CircuitOpenError"]]_vars
  /\ []((exResult # "none" /\ fnCalls > 0 /\ fnInvocations = 0) =>
          exResult = "CircuitOpenError")

\* an execute() made two attempts against the OPEN breaker, both rejected, and
\* threw CircuitOpenError
C12_Witness ==
  /\ openAtCall
  /\ exResult = "CircuitOpenError"
  /\ fnCalls >= 2
  /\ fnInvocations = 0
  /\ cbState = "OPEN"

\* a ValidationError, an AuthenticationError, or a statusCode in 400..499
ClientError(error) ==
  \/ error.name \in {"ValidationError", "AuthenticationError"}
  \/ error.statusCode \in 400..499

\* C11: when fn fails with a ValidationError, an AuthenticationError or a 4xx
\* error, retryWithBackoff returns at once a failure with that error, sets no
\* backoff timer and never invokes fn again: fn failing so on its first
\* invocation is invoked exactly once, and attempts = 1.
C11_ClientErrorNotRetried ==
  [][\A error \in Errors :
       (ClientError(error) /\ FnThrows(error)) =>
          /\ rtPc' = "done"
          /\ rtResult' = [success |-> FALSE, attempts |-> fnCalls, error |-> error]
          /\ rtDelays' = rtDelays
          /\ fnCalls' = fnCalls
          /\ (Len(rtDelays) = 0 => fnCalls' = 1 /\ rtResult'.attempts = 1)]_vars

\* with three retries allowed, a 404 on the first invocation ended the call
C11_Witness ==
  /\ rtPc = "done"
  /\ retryConfig.maxRetries = 3
  /\ rtResult.error.statusCode = 404
  /\ rtResult.error.name = "Error"
  /\ ~rtResult.success
  /\ fnCalls = 1
  /\ rtDelays = <<>>

\* C30: a page fetch answered with a 4xx status is never retried by the
\* reliability wrapper: fn is attempted once and the error is surfaced at once
C30_ClientErrorPageNotRetried ==
  [][ExecFnThrows(ApiRequestFailed(404)) =>
        /\ rtPc' = "done"
        /\ rtResult' = [success |-> FALSE, attempts |-> fnCalls,
                        error |-> ApiRequestFailed(404)]
        /\ rtDelays' = rtDelays]_vars

\* C33: a 401 response causes exactly one token refresh and one re-send for the
\* logical operation (one reliability.execute call); when the re-send fails too
\* the error is surfaced with no further refresh or re-send for that operation
C33_OneRefreshAndResendPerOperation ==
  \A e \in 1..MaxExecutes : refreshesOf[e] <= 1 /\ resendsOf[e] <= 1

\* the callers whose refresh is in flight (awaiting page.goto)
RefreshesInFlight == {c \in RefreshCallers : rfPc[c] = "goto"}

\* C34: for one scraper at most one token refresh is in flight at any time; a
\* refreshToken() call made while another refresh is running starts no second
\* refresh and returns only after the running one has finished
C34_SingleRefreshInFlight ==
  /\ Cardinality(RefreshesInFlight) <= 1
  /\ \A c \in RefreshCallers :
        /\ rfAwaits[c] # 0 => rfPc[c] \in {"polling", "returned"}
        /\ (rfAwaits[c] # 0 /\ rfPc[c] = "returned") => rfAwaits[c] \in rfFinished

\* a caller that found a refresh running has returned after it finished
C34_Witness ==
  \E c \in RefreshCallers :
     /\ rfAwaits[c] # 0
     /\ rfPc[c] = "returned"
     /\ rfAwaits[c] \in rfFinished

(***************************************************************************)
(* Claims about the rate limiter                                           *)
(***************************************************************************)
\* the returns of acquire() i and j are at least d apart
Apart(i, j, d) == grants[j] - grants[i] >= d

\* C13: no more than requestsPerMinute calls of acquire() return within any
\* rolling window: a return and the requestsPerMinute-th return after it are at
\* least the window apart.
C13_RateWithinBudget ==
  \A i, j \in 1..Len(grants) :
     j = i + limiterConfig.requestsPerMinute => Apart(i, j, windowMs)

\* C14: with sequential callers, two consecutive returns of acquire() are at
\* least minDelayMs apart.
C14_SequentialMinDelay ==
  ~overlapped =>
     \A i \in 1..Len(grants) - 1 : Apart(i, i + 1, limiterConfig.minDelayMs)

\* C15: acquire() calls pending at the same time are granted one after another,
\* no two of them returning less than minDelayMs apart.
C15_ConcurrentAcquiresQueued ==
  overlapped =>
     \A i \in 1..Len(grants) - 1 : Apart(i, i + 1, limiterConfig.minDelayMs)

\* C29: the rate limit is shared by all concurrent workers: whatever their
\* number, no more than requestsPerMinute upstream calls are made within any
\* rolling window
C29_RateBudgetSharedByWorkers ==
  \A i, j \in 1..Len(upstream) :
     j = i + poolConfig.requestsPerMinute => upstream[j] - upstream[i] >= windowMs

\* how long an acquire() called at time t with the window ts waits before it
\* returns (0: it returns at once)
AcquireWait(ts, t, config, jitter) ==
  IF Len(ts) = 0 THEN 0
  ELSE LET delay == calculateDelay(ts, t, config, jitter)
       IN IF delay > 0 THEN delay ELSE 0

\* C31: getStats() consumes no slot: it adds no timestamp to the window, and an
\* acquire() called at any later time waits as long as it would have waited
\* without the getStats() call and leaves the same window behind
C31_GetStatsConsumesNoSlot ==
  [][LimiterGetStats =>
       /\ \E k \in 0..Len(requestTimestamps) :
             requestTimestamps' = SubSeq(requestTimestamps, k + 1, Len(requestTimestamps))
       /\ UNCHANGED <<grants, acqPc, acqWake>>
       /\ \A t \in now..MaxClock, jitter \in 0..MaxJitter :
             /\ AcquireWait(requestTimestamps', t, limiterConfig, jitter)
                  = AcquireWait(requestTimestamps, t, limiterConfig, jitter)
             /\ cleanOldRequests(requestTimestamps', t) = cleanOldRequests(requestTimestamps, t)]_vars

\* getStats() emptied a window that held the timestamps of earlier calls
C31_Witness ==
  /\ Len(grants) > 0
  /\ requestTimestamps = <<>>

(***************************************************************************)
(* Claims about the circuit breaker                                        *)
(***************************************************************************)
\* failureThreshold calls of fn have failed in a row, and resetTimeoutMs has not
\* elapsed since the last of them
Tripped ==
  /\ failureThreshold > 0
  /\ failStreak >= failureThreshold
  /\ now - lastFailAt < ResetTimeout

\* C2: for every threshold T, once T calls have failed in a row the breaker is
\* OPEN, and every execute() made before resetTimeoutMs has elapsed since the
\* last failure is rejected with CircuitOpenError without invoking fn.
C2_OpensAfterThresholdFailures ==
  /\ [](Tripped => cbState = "OPEN")
  /\ [][\A c \in Callers :
          (Tripped /\ Execute(c)) =>
             /\ callPc'[c] = "idle"
             /\ lastResult' = [caller |-> c, result |-> "CircuitOpenError"]
             /\ cbState' = "OPEN"]_vars

\* a breaker with threshold 2 opened by two failures has rejected a call
C2_Witness ==
  /\ Tripped
  /\ failureThreshold = 2
  /\ failStreak = 2
  /\ lastResult.result = "CircuitOpenError"

\* C16: a probe that succeeds while the breaker is HALF_OPEN closes it, with
\* consecutiveFailures = 0; a probe that fails re-opens it and restarts the
\* reset timer; and a probe is only ever admitted when at least resetTimeoutMs
\* has elapsed since the last failure.
C16_ProbeOutcome ==
  /\ [][\A c \in Callers :
          (callPc[c] = "probe" /\ cbState = "HALF_OPEN" /\ FnSucceeds(c)) =>
             (cbState' = "CLOSED" /\ consecutiveFailures' = 0)]_vars
  /\ [][\A c \in Callers :
          (callPc[c] = "probe" /\ cbState = "HALF_OPEN" /\ FnFails(c)) =>
             (cbState' = "OPEN" /\ lastFailureTime' = now)]_vars
  /\ [][\A c \in Callers :
          (Execute(c) /\ callPc'[c] = "probe") => now - lastFailAt >= ResetTimeout]_vars

\* a probe failed, the breaker is OPEN again, and after a further reset timeout
\* the next probe is in flight
C16_Witness ==
  /\ lastSettledAs = "probe"
  /\ lastResult.result = "fnError"
  /\ cbState = "HALF_OPEN"
  /\ \E c \in Callers : callPc[c] = "probe"
  /\ \A c \in Callers : callPc[c] # "closed"
  /\ now - lastFailAt >= ResetTimeout

\* C17: the breaker leaves OPEN only through the lazy check of getStats() or
\* execute(), for HALF_OPEN, and only when at least resetTimeoutMs has elapsed
\* since the last recorded failure; until then it is OPEN on every inspection.
C17_LeavesOpenOnlyByLazyCheck ==
  [][(cbState = "OPEN" /\ cbState' # "OPEN") =>
        /\ cbState' = "HALF_OPEN"
        /\ now - lastFailureTime >= ResetTimeout
        /\ (GetStats \/ \E c \in Callers : Execute(c))]_vars

\* C35: the breaker never goes from OPEN to CLOSED, and its failure counter is
\* never reset while OPEN, except through a successful HALF_OPEN probe; in
\* particular not through the late success of a call admitted while CLOSED
C35_OpenClosedOnlyByProbeSuccess ==
  [][(cbState = "OPEN" /\ (cbState' = "CLOSED" \/ consecutiveFailures' < consecutiveFailures)) =>
        \E c \in Callers : FnSucceeds(c) /\ callPc[c] = "probe"]_vars

\* C37: a call rejected with CircuitOpenError does not count as a failure: it
\* changes neither consecutiveFailures nor the last-failure timestamp, so the
\* instant at which the breaker becomes HALF_OPEN is not postponed
C37_RejectedCallsAreNotFailures ==
  [][\A c \in Callers :
       (Execute(c) /\ raised' = CircuitOpenError) =>
          /\ UNCHANGED <<consecutiveFailures, lastFailureTime, failStreak, lastFailAt>>
          /\ \A t \in now..MaxClock :
                getStats(Breaker', t).state = getStats(Breaker, t).state]_vars

\* a call was rejected by the OPEN breaker at a later instant than the failure
\* that opened it
C37_Witness ==
  /\ cbState = "OPEN"
  /\ lastResult.result = "CircuitOpenError"
  /\ now > lastFailureTime
  /\ lastFailureTime # NoInt

\* C18: execute(fn) rejects with exactly the error fn threw whenever fn was
\* invoked and failed, and raises CircuitOpenError only when it rejected the
\* call without invoking fn.
C18_ErrorNotMasked ==
  /\ [][\A c \in Callers :
          FnFails(c) => (thrown' \in Errors /\ raised' = thrown')]_vars
  /\ [][\A c \in Callers :
          ((Execute(c) \/ FnFails(c) \/ FnSucceeds(c)) /\ raised' = CircuitOpenError) =>
             (callPc[c] = "idle" /\ callPc'[c] = "idle" /\ thrown' = NoError)]_vars

\* fn failed with a ValidationError and execute raised it; another call is
\* still awaiting its fn
C18_Witness ==
  /\ lastResult.result = "fnError"
  /\ thrown.name = "ValidationError"
  /\ raised = thrown
  /\ \E c \in Callers : callPc[c] # "idle"

\* C3: while the breaker is HALF_OPEN at most one call admitted as the probe is
\* awaiting its wrapped function.
C3_OneProbeInFlight ==
  cbState = "HALF_OPEN" => Cardinality({c \in Callers : callPc[c] = "probe"}) <= 1

(***************************************************************************)
(* Claims about the price-history store                                    *)
(***************************************************************************)
\* positions of product i in the batch
BatchPositions(i) == {k \in 1..Len(batchProducts) : batchProducts[k].product_id = i}

FirstOf(S) == CHOOSE k \in S : \A j \in S : k <= j
LastOf(S) == CHOOSE k \in S : \A j \in S : k >= j

\* the row of product i once every upsert of the batch is stored
RowAfterBatch(i) ==
  IF BatchPositions(i) = {} THEN beforeProducts[i]
  ELSE [name |-> batchProducts[LastOf(BatchPositions(i))].name,
        first_seen |-> IF beforeProducts[i] = NoProduct
                       THEN batchProducts[FirstOf(BatchPositions(i))].first_seen
                       ELSE beforeProducts[i].first_seen,
        last_seen |-> batchProducts[LastOf(BatchPositions(i))].last_seen]

\* C8: saveProducts is all-or-nothing.  While the call runs, and after it threw
\* or the process was killed inside it, the stored products and snapshots are
\* exactly those from before the call; after it returned, every upsert and
\* every snapshot of the batch is stored.
C8_SaveProductsAllOrNothing ==
  /\ (stPc # "idle" \/ batchOutcome \in {"threw", "killed"}) =>
        (dbProducts = beforeProducts /\ dbSnapshots = beforeSnapshots)
  /\ batchOutcome = "committed" =>
        /\ dbSnapshots = beforeSnapshots \cup batchSnapshots
        /\ \A i \in ProductIds : dbProducts[i] = RowAfterBatch(i)

\* a call that had upserted a product and inserted a snapshot threw on a later
\* snapshot
C8_Witness ==
  /\ batchOutcome = "threw"
  /\ Len(batchProducts) >= 1
  /\ Cardinality(batchSnapshots) >= 2

\* the (product, outlet, capture timestamp) triple of a snapshot
Triple(s) == <<s.product_id, s.store_id, s.scraped_at>>

\* C21: insertPriceSnapshot fails with a uniqueness violation if and only if a
\* snapshot with the same (product, outlet, capture timestamp) triple is
\* already stored; the same product and timestamp at two outlets are accepted
C21_UniquePerProductOutletTimestamp ==
  \A snap \in SnapshotRecords :
    insertPriceSnapshotThrows(dbSnapshots, snap)
      <=> \E x \in dbSnapshots : Triple(x) = Triple(snap)

\* C22: for every product, last_seen never moves backwards across any sequence
\* of upsertProduct calls
C22_LastSeenNeverMovesBackwards ==
  [][\A i \in ProductIds :
       dbProducts[i] # NoProduct => dbProducts'[i].last_seen >= dbProducts[i].last_seen]_vars


(***************************************************************************)
(* Claims about the orchestrator, the ledger and the resume resolver       *)
(***************************************************************************)
TerminalStatus == {"completed", "failed"}

\* C4: an exception raised while processing one work item, whatever step
\* raises it, never aborts the run: when the process has ended on its own
\* after starting the items, every configured work item is completed or
\* failed and the run was not aborted.
C4_ItemFailureNeverAborts ==
  /\ phase # "aborted"
  /\ phase = "finished" =>
        \A i \in Tasks : categoryRuns[cfgRunId][cfgCats[i]].status \in TerminalStatus

\* C5: whenever a run's status is completed, every work item of that run is
\* completed or failed.
C5_CompletedRunHasOnlyTerminalItems ==
  \A r \in RunIds :
    scrapeRuns[r].status = "completed" =>
      \A c \in RowsOf(r) : categoryRuns[r][c].status \in TerminalStatus

\* the work items of run r that have not reached completed
NotCompleted(r) == {c \in RowsOf(r) : categoryRuns[r][c].status # "completed"}

\* a launch of main() that resumes run r with the selection sel
ResumesRun(sel, opt, r) ==
  /\ \E conc \in 1..MaxConcurrency : Main(sel, opt.resume, opt.runId, conc)
  /\ opt.resume \/ opt.runId # 0
  /\ resolveResumeState(sel, opt.resume, opt.runId).runId = r

\* C6: after a kill, a resume of a run selects every work item of the run
\* that had not reached completed at the time of the kill (the selection
\* being the whole catalogue), items left in_progress included.
C6_ResumeAfterKillLosesNothing ==
  [][\A opt \in ResumeOptions, r \in RunIds :
       (phase = "dead" /\ ResumesRun(Cats, opt, r))
         => NotCompleted(r) \subseteq Range(cfgCats')]_vars

\* the work items of run r that ended failed
Failed(r) == {c \in RowsOf(r) : categoryRuns[r][c].status = "failed"}

\* C7: after the orchestrator has finished a run in which some items failed,
\* a later resume (--resume, or --run-id with that run's id, the selection
\* being the whole catalogue) resumes that run and selects the failed items.
C7_FailedItemsResumableAfterFinish ==
  [][\A opt \in ResumeOptions, conc \in 1..MaxConcurrency :
       (/\ phase = "finished"
        /\ cfgRunId # 0
        /\ Failed(cfgRunId) # {}
        /\ opt.resume \/ opt.runId = cfgRunId
        /\ Main(Cats, opt.resume, opt.runId, conc))
         => /\ cfgRunId' = cfgRunId
            /\ Failed(cfgRunId) \subseteq Range(cfgCats')]_vars

Selections == (SUBSET Cats) \ {{}}

\* the selected categories whose work item in run r is pending or failed
PendingOrFailed(r, sel) == {c \in sel : categoryRuns[r][c].status \in {"pending", "failed"}}

\* C23: completed is terminal for a work item within its run: no later
\* orchestration or resume of the run changes its row, and no task of a
\* completed item is queued or executing
C23_CompletedIsTerminal ==
  /\ [](\A i \in Tasks :
          (cfgRunId # 0 /\ taskPc[i] \in {"queued", "active"})
             => categoryRuns[cfgRunId][cfgCats[i]].status # "completed")
  /\ [][\A r \in 1..MaxRuns, c \in Cats :
          categoryRuns[r][c].status = "completed"
             => categoryRuns'[r][c] = categoryRuns[r][c]]_vars

\* a run with a completed item has been resumed and a resumed item is executing
C23_Witness ==
  /\ phase = "running"
  /\ ActiveTasks # {}
  /\ \E c \in Cats : /\ c \notin Range(cfgCats)
                     /\ categoryRuns[cfgRunId][c].status = "completed"

\* C24: for a resumable run, resolveResumeState returns exactly the selected
\* categories whose work item in the target run is pending or failed
C24_ResumeReturnsPendingAndFailed ==
  \A sel \in Selections, opt \in ResumeOptions :
    LET rs == resolveResumeState(sel, opt.resume, opt.runId)
    IN rs.isResuming =>
         /\ rs.runId \in RunIds
         /\ opt.runId # 0 => rs.runId = opt.runId
         /\ scrapeRuns[rs.runId].status = "in_progress"
         /\ rs.categoriesToScrape = PendingOrFailed(rs.runId, sel)

\* main() resumed a run with a completed and a failed item: only the failed one
\* is handed to the scraper
C24_Witness ==
  /\ phase = "init"
  /\ cfgRunId # 0
  /\ \E c1, c2 \in Cats :
       /\ categoryRuns[cfgRunId][c1].status = "completed"
       /\ categoryRuns[cfgRunId][c2].status = "failed"
       /\ cfgCats = <<c2>>

\* C25: with --resume and no in_progress run the resolver returns no run id and
\* all selected categories (a fresh run follows); when the target run exists
\* and no selected item is pending or failed it returns the run id, no
\* category and the allCompleted flag
C25_TwoEmptyOutcomes ==
  \A sel \in Selections, opt \in ResumeOptions :
    LET rs == resolveResumeState(sel, opt.resume, opt.runId)
        target == IF opt.runId # 0 THEN opt.runId ELSE getIncompleteRun.id
    IN /\ (opt.resume /\ getIncompleteRun.id = 0)
            => rs = ResumeResult("none", 0, sel, FALSE, FALSE)
       /\ ((opt.resume \/ opt.runId # 0) /\ rs.error = "none" /\ target # 0
             /\ PendingOrFailed(target, sel) = {})
            => rs = ResumeResult("none", target, {}, TRUE, TRUE)

\* main() found the run to resume with nothing left of the selection
C25_Witness ==
  /\ phase = "nothingToDo"
  /\ cfgRunId # 0
  /\ scrapeRuns[cfgRunId].status = "in_progress"
  /\ cfgCats = <<>>

\* C39: the resolver reports 'already complete' only when the target run has
\* no pending or failed work item at all, not when the run still has pending or
\* failed items outside the caller's selection
C39_AllCompletedMeansNothingLeft ==
  \A sel \in Selections, opt \in ResumeOptions :
    LET rs == resolveResumeState(sel, opt.resume, opt.runId)
    IN rs.allCompleted => PendingOrFailed(rs.runId, RowsOf(rs.runId)) = {}

\* C40: a status-only updateCategoryRun, such as the in_progress update made
\* when an item is started or resumed, leaves the item's recorded last_page,
\* product_count and error unchanged and modifies no other work item
C40_StatusUpdateKeepsRecordedFields ==
  [][\A i \in 1..NumCats :
       TaskStart(i, TRUE) =>
          categoryRuns' = [categoryRuns EXCEPT ![cfgRunId][cfgCats[i]].status = "in_progress"]]_vars


\* the work items a run has right after createRun returned: the rows it
\* inserted, each with the store_id it was called with
WorkItems(r) == {<<cfgStoreId, c>> : c \in RowsOf(r)}

\* C26: immediately after createRun the new run is in_progress and has exactly
\* one work item, pending, for every (outlet, category) pair of the selection
C26_CreateRunFullCrossProduct ==
  (phase = "init" /\ cfgStoreId # 0) =>
     /\ scrapeRuns[cfgRunId].status = "in_progress"
     /\ WorkItems(cfgRunId) = cfgStores \X Range(cfgCats)
     /\ \A c \in RowsOf(cfgRunId) : categoryRuns[cfgRunId][c] = PendingRow

\* C27: after run() has orchestrated a run in which only fetches failed, for
\* the items F, the ledger shows exactly F as failed and every other item as
\* completed, and rows were saved only for items that are not in F
C27_LedgerMatchesFetchOutcomes ==
  (phase = "finished" /\ ~storageThrew /\ RowsOf(cfgRunId) = Range(cfgCats)) =>
     /\ \A c \in Range(cfgCats) :
          categoryRuns[cfgRunId][c].status
             = IF c \in fetchRejected THEN "failed" ELSE "completed"
     /\ savedCats \subseteq Range(cfgCats) \ fetchRejected

\* a finished run with a failed fetch and a saved item
C27_Witness ==
  /\ phase = "finished"
  /\ ~storageThrew
  /\ RowsOf(cfgRunId) = Range(cfgCats)
  /\ fetchRejected # {}
  /\ savedCats # {}

\* C28: at any moment at most N work items are being processed, N being the
\* configured concurrency; with N = 1 they are processed one at a time
C28_AtMostNInProcess ==
  Cardinality({i \in 1..NumCats : taskPc[i] = "active"}) <= cfgConcurrency

\* with N = 1 and two work items, one is being processed and the other waits
C28_Witness ==
  /\ cfgConcurrency = 1
  /\ \E i, j \in Tasks : taskPc[i] = "active" /\ taskPc[j] = "queued"

\* C36: each scraper processes at most one work item at a time: the
\* orchestrator never has two concurrently active work items assigned to the
\* same scraper
C36_OneActiveItemPerScraper ==
  \A j, k \in LimitActive :
     scraperIndex(j, scrapers) = scraperIndex(k, scrapers) => j = k

\* C32: when a work item is marked completed, the last_page recorded equals the
\* number of pages fetched for it and product_count the number of products
C32_CompletedRecordsPagesFetched ==
  [][\A i \in 1..NumCats, n \in 0..MaxProducts, failedOk \in BOOLEAN, progressOk \in BOOLEAN :
       TaskFetchOk(i, n, TRUE, TRUE, failedOk, progressOk) =>
          /\ categoryRuns'[cfgRunId][cfgCats[i]].status = "completed"
          /\ categoryRuns'[cfgRunId][cfgCats[i]].productCount = n
          /\ categoryRuns'[cfgRunId][cfgCats[i]].lastPage = PagesFetched(n, MaxPages)]_vars

\* C9: createRun is atomic: outside createRun's own execution no state has
\* a run row with only some or none of the work items createRun was asked
\* to insert, also after a failure or a kill inside createRun.
C9_CreateRunAtomic ==
  phase # "createRun" => \A r \in RunIds : RowsOf(r) = runCats[r]

====
